---- MODULE Spec2Model ----
(***************************************************************************)
(* Hybrid retrieval store of Sentinel-Copilot-S2 (server/rag): the dense   *)
(* (ChromaDB) collections, the per-subject BM25 indices, and the ingest,   *)
(* delete, list, search and startup operations of VectorStore.             *)
(*                                                                         *)
(* Strings the code takes apart (subject ids, collection names) are        *)
(* sequences of one-character strings.  A text is a sequence of words.     *)
(* Floats are fixed point: importance in 1/100, distances in 1e-5,         *)
(* vector_score and the returned score in 1e-4, RRF shares in 1e-8,        *)
(* rrf_score, score and cross-encoder scores in 1e-6, BM25 scores in 1e-7. *)
(***************************************************************************)
EXTENDS Integers, Sequences, FiniteSets, Bags, TLC

\* ------------------------------------------------------------------ bounds

\* Requests in flight at once.
MaxTasks == 2
\* Records one dense collection may hold (guards ingest).
MaxRecords == 4
\* Cap on BM25Index.doc_count, which re-ingesting a document grows.
MaxDocCount == 4
\* Largest limit a search is called with.
MaxLimit == 2
\* Most words of a query handed to QueryExpander.expand on its own.
MaxQueryLen == 2
\* Most blocks (headers, paragraphs, code blocks, tables) of a page handed to
\* the chunker.
MaxBlocks == 3

\* Pages of an uploaded file.
MaxPages == 2

\* Documents ingested into a store.
MaxDocuments == 2

\* --------------------------------------------------------- generic helpers

Min(a, b) == IF a <= b THEN a ELSE b

Max(a, b) == IF a >= b THEN a ELSE b

Range(seq) == {seq[i] : i \in 1..Len(seq)}

\* seq[:n]
Take(seq, n) == SubSeq(seq, 1, Min(n, Len(seq)))

\* dict[k] = v
Put(f, k, v) == [x \in (DOMAIN f) \cup {k} |-> IF x = k THEN v ELSE f[x]]

\* del dict[k]
Del(f, k) == [x \in (DOMAIN f) \ {k} |-> f[x]]

EmptyMap == [x \in {} |-> 0]

RECURSIVE SumOver(_, _)
SumOver(f, S) ==
    IF S = {} THEN 0
    ELSE LET x == CHOOSE y \in S : TRUE IN f[x] + SumOver(f, S \ {x})

\* The distinct elements of seq in order of first occurrence.
RECURSIVE Dedup(_)
Dedup(seq) ==
    IF seq = <<>> THEN <<>>
    ELSE LET r == Dedup(SubSeq(seq, 1, Len(seq) - 1))
             x == seq[Len(seq)]
         IN IF x \in Range(r) THEN r ELSE Append(r, x)

RECURSIVE Count(_, _)
Count(seq, x) ==
    IF seq = <<>> THEN 0
    ELSE (IF Head(seq) = x THEN 1 ELSE 0) + Count(Tail(seq), x)

\* All orderings of a finite set, as sequences.
RECURSIVE Orderings(_)
Orderings(S) ==
    IF S = {} THEN {<<>>}
    ELSE UNION {{<<x>> \o r : r \in Orderings(S \ {x})} : x \in S}

\* round(num / den) to the nearest integer, den > 0.
RoundDiv(num, den) == (2 * num + den) \div (2 * den)

\* ----------------------------------------------- subject ids and collections

SENTINEL == <<"s", "e", "n", "t", "i", "n", "e", "l", "_">>

SubjHyphen == <<"a", "-", "b">>

SubjUnder == <<"a", "_", "b">>

SubjectIds == {SubjHyphen, SubjUnder}

AlnumChars == {"a", "b", "c", "f", "t"}

\* str.replace(old, new) for one-character old and new.
ReplaceChar(s, old, new) == [i \in 1..Len(s) |-> IF s[i] = old THEN new ELSE s[i]]

StartsWith(s, pat) == Len(s) >= Len(pat) /\ SubSeq(s, 1, Len(pat)) = pat

\* str.replace(pat, ''): every non-overlapping occurrence, left to right.
RECURSIVE RemoveAll(_, _)
RemoveAll(s, pat) ==
    IF s = <<>> THEN <<>>
    ELSE IF StartsWith(s, pat) THEN RemoveAll(SubSeq(s, Len(pat) + 1, Len(s)), pat)
    ELSE <<Head(s)>> \o RemoveAll(Tail(s), pat)

\* upload_document: subject_id.replace('-', '').replace('_', '').isalnum()
SubjectIdValid(s) ==
    LET stripped == SelectSeq(s, LAMBDA ch : ch \notin {"-", "_"})
    IN stripped # <<>> /\ Range(stripped) \subseteq AlnumChars

\* _get_collection: f"sentinel_{subject_id}".replace('-', '_')
CollectionName(subject_id) == ReplaceChar(SENTINEL \o subject_id, "-", "_")

\* delete_document and _rebuild_bm25_indices:
\* col_name.replace('sentinel_', '').replace('_', '-')
SubjectOfCollection(col_name) == ReplaceChar(RemoveAll(col_name, SENTINEL), "_", "-")

CollectionNames == {CollectionName(s) : s \in SubjectIds}

\* ------------------------------------------------------------------- BM25

\* The members of BM25Index.STOP_WORDS that occur in the modelled texts.
STOP_WORDS == {"the"}

\* BM25Index._tokenize on a text given as its words: drops stop words and
\* one-character tokens.
Tokenize(text) == SelectSeq(text, LAMBDA t : t \notin STOP_WORDS /\ Len(t) > 1)

\* BM25Index.__init__
NewBM25 ==
    [doc_count |-> 0,
     avgdl |-> [num |-> 0, den |-> 1],
     doc_lengths |-> EmptyMap,
     doc_freqs |-> EmptyMap,
     inverted_index |-> EmptyMap,
     doc_texts |-> EmptyMap,
     doc_metadata |-> EmptyMap]

\* A posting map (dict doc_id -> tf, in insertion order) as a sequence.
PostingIds(postings) == {postings[i].id : i \in 1..Len(postings)}

\* A posting that records 1 for every term: not what add_document stores.
SetPostingOnce(postings, doc_id, freq) ==
    IF doc_id \in PostingIds(postings)
    THEN [i \in 1..Len(postings) |->
            IF postings[i].id = doc_id THEN [id |-> doc_id, tf |-> 1] ELSE postings[i]]
    ELSE Append(postings, [id |-> doc_id, tf |-> 1])

\* postings[doc_id] = freq: an existing key keeps its place.
SetPosting(postings, doc_id, freq) ==
    IF doc_id \in PostingIds(postings)
    THEN [i \in 1..Len(postings) |->
            IF postings[i].id = doc_id THEN [id |-> doc_id, tf |-> freq] ELSE postings[i]]
    ELSE Append(postings, [id |-> doc_id, tf |-> freq])

\* A removal that leaves the posting in place: not what remove_document does.
DelPostingKept(postings, doc_id) == postings

\* del postings[doc_id]
DelPosting(postings, doc_id) == SelectSeq(postings, LAMBDA p : p.id # doc_id)

\* sum(self.doc_lengths.values()) / max(self.doc_count, 1)
Avgdl(doc_lengths, doc_count) ==
    [num |-> SumOver(doc_lengths, DOMAIN doc_lengths), den |-> Max(doc_count, 1)]

\* The loop of add_document over term_counts.items(), terms in first-occurrence
\* order: inverted_index[term][doc_id] = freq; doc_freqs[term] += 1.
RECURSIVE AddTerms(_, _, _, _)
AddTerms(b, terms, tokens, doc_id) ==
    IF terms = <<>> THEN b
    ELSE LET term == Head(terms)
             old == IF term \in DOMAIN b.inverted_index
                    THEN b.inverted_index[term] ELSE <<>>
             df == IF term \in DOMAIN b.doc_freqs THEN b.doc_freqs[term] ELSE 0
             b1 == [b EXCEPT
                      !.inverted_index =
                          Put(b.inverted_index, term,
                              SetPosting(old, doc_id, Count(tokens, term))),
                      !.doc_freqs = Put(b.doc_freqs, term, df + 1)]
         IN AddTerms(b1, Tail(terms), tokens, doc_id)

\* BM25Index.add_document
AddDocument(b, doc_id, text, metadata) ==
    LET tokens == Tokenize(text)
        b1 == [b EXCEPT
                 !.doc_texts = Put(b.doc_texts, doc_id, text),
                 !.doc_metadata = Put(b.doc_metadata, doc_id, metadata),
                 !.doc_lengths = Put(b.doc_lengths, doc_id, Len(tokens))]
        b2 == AddTerms(b1, Dedup(tokens), tokens, doc_id)
    IN [b2 EXCEPT
          !.doc_count = b.doc_count + 1,
          !.avgdl = Avgdl(b2.doc_lengths, b.doc_count + 1)]

\* The loop of remove_document over the distinct tokens of the stored text.
RECURSIVE RemoveTerms(_, _, _)
RemoveTerms(b, terms, doc_id) ==
    IF terms = <<>> THEN b
    ELSE LET token == Head(terms)
             present == /\ token \in DOMAIN b.inverted_index
                        /\ doc_id \in PostingIds(b.inverted_index[token])
             rest == DelPosting(b.inverted_index[token], doc_id)
             df == Max(0, (IF token \in DOMAIN b.doc_freqs
                           THEN b.doc_freqs[token] ELSE 0) - 1)
             b1 == IF ~present THEN b
                   ELSE IF rest = <<>>
                   THEN [b EXCEPT !.inverted_index = Del(b.inverted_index, token),
                                  !.doc_freqs = Del(b.doc_freqs, token)]
                   ELSE [b EXCEPT !.inverted_index = Put(b.inverted_index, token, rest),
                                  !.doc_freqs = Put(b.doc_freqs, token, df)]
         IN RemoveTerms(b1, Tail(terms), doc_id)

\* BM25Index.remove_document
RemoveDocument(b, doc_id) ==
    IF doc_id \notin DOMAIN b.doc_texts THEN b
    ELSE LET b1 == RemoveTerms(b, Dedup(Tokenize(b.doc_texts[doc_id])), doc_id)
             lengths == Del(b1.doc_lengths, doc_id)
             n == b.doc_count - 1
         IN [b1 EXCEPT
               !.doc_texts = Del(b1.doc_texts, doc_id),
               !.doc_lengths = lengths,
               !.doc_metadata = Del(b1.doc_metadata, doc_id),
               !.doc_count = n,
               !.avgdl = IF n > 0 THEN Avgdl(lengths, n) ELSE [num |-> 0, den |-> 1]]

\* round(10000 * ln k) for k = 1..40.
LnTable ==
    <<0, 6931, 10986, 13863, 16094, 17918, 19459, 20794, 21972, 23026,
      23979, 24849, 25649, 26391, 27081, 27726, 28332, 28904, 29444, 29957,
      30445, 30910, 31355, 31781, 32189, 32581, 32958, 33322, 33673, 34012,
      34340, 34657, 34965, 35264, 35553, 35835, 36109, 36376, 36636, 36889>>

\* idf = math.log((doc_count - df + 0.5) / (df + 0.5) + 1.0)
\*     = ln((2 doc_count + 2) / (2 df + 1)), in 1e-4.
Idf(doc_count, df) == LnTable[2 * doc_count + 2] - LnTable[2 * df + 1]

\* tf_norm = tf (k1 + 1) / (tf + k1 (1 - b + b dl / avgdl)), k1 = 1.5, b = 0.75,
\* in 1e-3: 20 tf A / (8 tf A + 3 A + 9 dl D) with avgdl = A / D.
TfNorm(tf, dl, avgdl) ==
    (20000 * tf * avgdl.num)
        \div (8 * tf * avgdl.num + 3 * avgdl.num + 9 * dl * avgdl.den)

\* BM25Index.search raises: a posting of a document missing from doc_lengths
\* (KeyError) or a division by avgdl = 0.
SearchRaises(b, query) ==
    /\ b.doc_count # 0
    /\ \E i \in 1..Len(Tokenize(query)) :
          LET term == Tokenize(query)[i] IN
          /\ term \in DOMAIN b.inverted_index
          /\ \E j \in 1..Len(b.inverted_index[term]) :
                \/ b.inverted_index[term][j].id \notin DOMAIN b.doc_lengths
                \/ b.avgdl.num = 0

\* scores[doc_id] += idf * tf_norm over the postings of one term; scores is a
\* dict in insertion order, here a sequence of [id, score].
RECURSIVE ScorePostings(_, _, _, _)
ScorePostings(scores, postings, idf, b) ==
    IF postings = <<>> THEN scores
    ELSE LET p == Head(postings)
             add == idf * TfNorm(p.tf, b.doc_lengths[p.id], b.avgdl)
             seen == \E i \in 1..Len(scores) : scores[i].id = p.id
             s1 == IF seen
                   THEN [i \in 1..Len(scores) |->
                           IF scores[i].id = p.id
                           THEN [id |-> p.id, score |-> scores[i].score + add]
                           ELSE scores[i]]
                   ELSE Append(scores, [id |-> p.id, score |-> add])
         IN ScorePostings(s1, Tail(postings), idf, b)

RECURSIVE ScoreTerms(_, _, _)
ScoreTerms(scores, terms, b) ==
    IF terms = <<>> THEN scores
    ELSE LET term == Head(terms)
             df == IF term \in DOMAIN b.doc_freqs THEN b.doc_freqs[term] ELSE 0
             s1 == IF term \notin DOMAIN b.inverted_index THEN scores
                   ELSE ScorePostings(scores, b.inverted_index[term],
                                      Idf(b.doc_count, df), b)
         IN ScoreTerms(s1, Tail(terms), b)

\* sorted(items, key=..., reverse=True) with keys[i] the key of items[i]:
\* stable, equal keys keep their order.
RECURSIVE SortDesc(_, _)
SortDesc(items, keys) ==
    IF items = <<>> THEN <<>>
    ELSE LET rest == SortDesc(Tail(items), Tail(keys))
             k == Cardinality({i \in 2..Len(keys) : keys[i] > Head(keys)})
         IN SubSeq(rest, 1, k) \o <<Head(items)>> \o SubSeq(rest, k + 1, Len(rest))

Scores(items) == [i \in 1..Len(items) |-> items[i].score]

SortByScoreDesc(items) == SortDesc(items, Scores(items))

\* BM25Index.search, when it does not raise: (doc_id, score) pairs.
BM25Search(b, query, limit) ==
    IF b.doc_count = 0 THEN <<>>
    ELSE Take(SortByScoreDesc(ScoreTerms(<<>>, Tokenize(query), b)), limit)

BM25Ids(b) == DOMAIN b.doc_texts

\* ------------------------------------------------------- documents and chunks

\* Uploaded byte contents, named by their hash.
Contents == {"h0", "h1"}

\* PDFProcessor.process(content).chunks: the chunks of each content, in order,
\* with importances the chunker computes (0.7 short text, 1.2 code, 1.0 plain).
ChunksOf(content) ==
    CASE content = "h1" ->
            <<[text |-> <<"ssrf", "attack", "the">>, importance |-> 70,
               chunk_type |-> "paragraph"],
              [text |-> <<"request", "forgery", "x">>, importance |-> 120,
               chunk_type |-> "code"]>>
      [] content = "h2" ->
            <<[text |-> <<"sqli", "request">>, importance |-> 100,
               chunk_type |-> "paragraph"]>>
      [] OTHER -> <<>>

\* upload_document: document_id = f"{subject_id}_{file_hash}"
DocumentId(subject_id, content) == <<subject_id, content>>

DocumentIds == {DocumentId(s, c) : s \in SubjectIds, c \in Contents}

\* add_chunks: ids = [f"{document_id}_{i}" for i in range(len(chunks))]
ChunkId(document_id, i) == <<document_id, i>>

\* add_chunks: the records handed to collection.add and bm25.add_document.
Records(document_id, chunks) ==
    [i \in 1..Len(chunks) |->
        [id |-> ChunkId(document_id, i - 1),
         text |-> chunks[i].text,
         metadata |-> [document_id |-> document_id,
                       chunk_type |-> chunks[i].chunk_type,
                       importance |-> chunks[i].importance]]]

\* ------------------------------------------------------------------ chunker

(***************************************************************************)
(* SemanticChunker works on characters: a text is a sequence of            *)
(* one-character strings.  The modelled texts hold no digit and no dash    *)
(* other than '-', so the HEADER_PATTERNS that need a digit (numbered,     *)
(* Chapter and Section headings) and the dashes of DEFINITION_PATTERN      *)
(* cannot match and are left out.                                          *)
(***************************************************************************)
NL == "\n"

\* The characters str.strip() removes and \s matches.
Whitespace == {" ", "\t", NL}

UPPER == <<"A", "B", "C", "D", "E", "F", "G", "H", "I", "J", "K", "L", "M", "N", "O", "P", "Q", "R", "S", "T", "U", "V", "W", "X", "Y", "Z">>

LOWER == <<"a", "b", "c", "d", "e", "f", "g", "h", "i", "j", "k", "l", "m", "n", "o", "p", "q", "r", "s", "t", "u", "v", "w", "x", "y", "z">>

\* [A-Z]
Upper == Range(UPPER)

\* \w
WordChars == Upper \cup Range(LOWER) \cup {"_"}

\* str.lower()
LowerChar(ch) ==
    IF ch \in Upper THEN LOWER[CHOOSE i \in 1..Len(UPPER) : UPPER[i] = ch] ELSE ch

LowerText(s) == [i \in 1..Len(s) |-> LowerChar(s[i])]

\* s[i - 1:] for a 1-based i
From(s, i) == SubSeq(s, i, Len(s))

\* The first place at or after from whose character is not in class, Len(s) + 1
\* when there is none: where a greedy run of the class ends.
SkipClass(s, from, class) ==
    IF \A i \in from..Len(s) : s[i] \in class THEN Len(s) + 1
    ELSE CHOOSE i \in from..Len(s) :
            s[i] \notin class /\ \A j \in from..(i - 1) : s[j] \in class

\* str.strip()
Strip(s) ==
    IF \A i \in 1..Len(s) : s[i] \in Whitespace THEN <<>>
    ELSE LET first == SkipClass(s, 1, Whitespace)
             final == CHOOSE i \in first..Len(s) :
                         s[i] \notin Whitespace /\ \A j \in (i + 1)..Len(s) : s[j] \in Whitespace
         IN SubSeq(s, first, final)

\* pat in s
Contains(s, pat) ==
    \E i \in 1..(Len(s) - Len(pat) + 1) : \A k \in 1..Len(pat) : s[i + k - 1] = pat[k]

\* text.split('\n')
SplitLines(text) ==
    LET nl == {i \in 1..Len(text) : text[i] = NL}
        n == Cardinality(nl)
        pos(k) == IF k = 0 THEN 0
                  ELSE IF k = n + 1 THEN Len(text) + 1
                  ELSE CHOOSE i \in nl : Cardinality({j \in nl : j < i}) = k - 1
    IN [k \in 1..(n + 1) |-> SubSeq(text, pos(k - 1) + 1, pos(k) - 1)]

\* '\n'.join(parts)
RECURSIVE Join(_)
Join(parts) ==
    IF parts = <<>> THEN <<>>
    ELSE IF Len(parts) = 1 THEN parts[1]
    ELSE parts[1] \o <<NL>> \o Join(Tail(parts))

\* The result of _detect_header when no pattern gives a header.
NoHeader == [found |-> FALSE, text |-> <<>>, level |-> 0]

\* re.sub(r'^[#\d\.\s\-:]+', '', header_text).strip()
CleanHeader(header_text) ==
    Strip(From(header_text, SkipClass(header_text, 1, {"#", ".", "-", ":"} \cup Whitespace)))

\* [IVXLCDM]
RomanChars == {"I", "V", "X", "L", "C", "D", "M"}

\* The group (.+) that follows \s+ when the whitespace starts at place i.
AfterSpace(s, i) == From(s, SkipClass(s, i, Whitespace))

\* For a stripped line, the (header_text, level) of every pattern of
\* HEADER_PATTERNS that matches it, in the order of the list: '#', '##',
\* '###' to '######', a line in capitals, a roman numeral heading.
HeaderMatches(s) ==
    LET h == SkipClass(s, 1, {"#"}) - 1
        hash(lo, hi, level) ==
            IF h >= lo /\ h <= hi /\ h < Len(s) /\ s[h + 1] \in Whitespace
            THEN <<[text |-> CleanHeader(AfterSpace(s, h + 1)), level |-> level]>>
            ELSE <<>>
        body == IF s # <<>> /\ s[Len(s)] = ":" THEN SubSeq(s, 1, Len(s) - 1) ELSE s
        caps == IF /\ Len(body) >= 3
                   /\ body[1] \in Upper
                   /\ \A i \in 2..Len(body) : body[i] \in Upper \cup Whitespace
                THEN <<[text |-> CleanHeader(body), level |-> 1]>>
                ELSE <<>>
        r == SkipClass(s, 1, RomanChars) - 1
        roman == IF /\ r >= 1
                    /\ r + 2 < Len(s)
                    /\ s[r + 1] = "."
                    /\ s[r + 2] \in Whitespace
                 THEN <<[text |-> CleanHeader(AfterSpace(s, r + 2)), level |-> 2]>>
                 ELSE <<>>
    IN hash(1, 1, 1) \o hash(2, 2, 2) \o hash(3, 6, 3) \o caps \o roman

\* SemanticChunker._detect_header: the first pattern that matches and leaves a
\* non-empty header text.
DetectHeader(line) ==
    LET m == SelectSeq(HeaderMatches(Strip(line)), LAMBDA x : x.text # <<>>)
    IN IF m = <<>> THEN NoHeader
       ELSE [found |-> TRUE, text |-> m[1].text, level |-> m[1].level]

\* The backtick, which a string of this language cannot hold, is written "^".
BACKTICK == "^"

FENCE == <<BACKTICK, BACKTICK, BACKTICK>>

\* A fence test that asks for the fence at the very start of the line: not
\* what _is_code_fence does.
IsCodeFenceUnstripped(line) == StartsWith(line, FENCE)

\* SemanticChunker._is_code_fence
IsCodeFence(line) == StartsWith(Strip(line), FENCE)

\* SemanticChunker._is_table_line: TABLE_PATTERNS matched at the start of the
\* stripped line, \|.*\|.*\| or \+[-=]+\+.
IsTableLine(line) ==
    LET s == Strip(line)
    IN /\ s # <<>>
       /\ \/ s[1] = "|" /\ Cardinality({i \in 2..Len(s) : s[i] = "|"}) >= 2
          \/ /\ s[1] = "+"
             /\ \E j \in 3..Len(s) :
                   s[j] = "+" /\ \A k \in 2..(j - 1) : s[k] \in {"-", "="}

\* SENTENCE_END = (?<=[.!?])\s+(?=[A-Z]): the start() of every match, as the
\* number of characters before it.
SentenceBoundaries(text) ==
    {b \in 1..(Len(text) - 2) :
        /\ text[b] \in {".", "!", "?"}
        /\ text[b + 1] \in Whitespace
        /\ LET e == SkipClass(text, b + 1, Whitespace)
           IN e <= Len(text) /\ text[e] \in Upper}

\* SemanticChunker._count_sentences
CountSentences(text) == Cardinality(SentenceBoundaries(text)) + 1

\* SemanticChunker._split_at_sentence_boundary: the boundary nearest to
\* target_size among those above min_chunk_size, the first of them on a tie,
\* target_size itself when there is none.
SplitAtSentenceBoundary(cfg, text, target_size) ==
    IF Len(text) <= target_size THEN [first |-> text, rest |-> <<>>]
    ELSE LET ok == {b \in {0} \cup SentenceBoundaries(text) \cup {Len(text)} :
                       b > cfg.min_chunk_size}
             Diff(b) == IF b >= target_size THEN b - target_size ELSE target_size - b
             best_split ==
                 IF ok = {} THEN target_size
                 ELSE CHOOSE b \in ok :
                         \A c \in ok : Diff(b) < Diff(c) \/ (Diff(b) = Diff(c) /\ b <= c)
         IN [first |-> Strip(SubSeq(text, 1, best_split)),
             rest |-> Strip(From(text, best_split + 1))]

\* DEFINITION_PATTERN.search(chunk_text), ^([A-Z][\w\s\-]+)\s*[:]\s+(.{20,})
\* with re.MULTILINE: a capital at the start of a line, word characters,
\* whitespace and '-' up to a ':', whitespace, and 20 characters on one line.
HasDefinition(text) ==
    \E p \in 1..Len(text) :
        /\ p = 1 \/ text[p - 1] = NL
        /\ text[p] \in Upper
        /\ \E c \in (p + 2)..Len(text) :
              /\ text[c] = ":"
              /\ \A k \in (p + 1)..(c - 1) : text[k] \in WordChars \cup Whitespace \cup {"-"}
              /\ \E q \in (c + 2)..(Len(text) - 19) :
                    /\ \A k \in (c + 1)..(q - 1) : text[k] \in Whitespace
                    /\ \A k \in q..(q + 19) : text[k] # NL

\* tech_markers of _compute_importance
TECH_MARKERS ==
    { <<"e", "x", "a", "m", "p", "l", "e">>,
      <<"i", "m", "p", "o", "r", "t", "a", "n", "t">>,
      <<"n", "o", "t", "e">>,
      <<"w", "a", "r", "n", "i", "n", "g">>,
      <<"d", "e", "f", "i", "n", "i", "t", "i", "o", "n">>,
      <<"a", "l", "g", "o", "r", "i", "t", "h", "m">>,
      <<"p", "r", "o", "t", "o", "c", "o", "l">>,
      <<"s", "y", "n", "t", "a", "x">>,
      <<"c", "o", "m", "m", "a", "n", "d">>,
      <<"f", "u", "n", "c", "t", "i", "o", "n">> }

\* An importance that is not capped at 2.0: not what _compute_importance gives.
ComputeImportanceUncapped(chunk_text, chunk_type, has_header) ==
    LET num == 100 * (IF has_header THEN 13 ELSE 10)
                   * (IF HasDefinition(chunk_text) THEN 14 ELSE 10)
                   * (IF chunk_type = "code" THEN 12 ELSE 10)
                   * (IF \E m \in TECH_MARKERS : Contains(LowerText(chunk_text), m)
                      THEN 11 ELSE 10)
                   * (IF Len(chunk_text) < 100 THEN 7 ELSE 10)
    IN RoundDiv(num, 100000)

\* An importance without the factor for code: not what _compute_importance
\* gives.
ComputeImportanceNoCode(chunk_text, chunk_type, has_header) ==
    LET num == 100 * (IF has_header THEN 13 ELSE 10)
                   * (IF HasDefinition(chunk_text) THEN 14 ELSE 10)
                   * (IF \E m \in TECH_MARKERS : Contains(LowerText(chunk_text), m)
                      THEN 11 ELSE 10)
                   * (IF Len(chunk_text) < 100 THEN 7 ELSE 10)
    IN RoundDiv(Min(num, 200 * 10000), 10000)

\* SemanticChunker._compute_importance, in 1/100: the product of the factors
\* 1.3 (header), 1.4 (definition), 1.2 (code), 1.1 (a technical marker) and
\* 0.7 (under 100 characters), capped at 2.0 and rounded to two places.
ComputeImportance(chunk_text, chunk_type, has_header) ==
    LET num == 100 * (IF has_header THEN 13 ELSE 10)
                   * (IF HasDefinition(chunk_text) THEN 14 ELSE 10)
                   * (IF chunk_type = "code" THEN 12 ELSE 10)
                   * (IF \E m \in TECH_MARKERS : Contains(LowerText(chunk_text), m)
                      THEN 11 ELSE 10)
                   * (IF Len(chunk_text) < 100 THEN 7 ELSE 10)
    IN RoundDiv(Min(num, 200 * 100000), 100000)

\* The header of a section without one (None).
None == <<>>

\* chunk_text's get_parent_header and get_current_header on header_stack.
GetParentHeader(header_stack) ==
    IF \A i \in 1..3 : header_stack[i] = None THEN None
    ELSE header_stack[CHOOSE i \in 1..3 :
                         header_stack[i] # None /\ \A j \in 1..(i - 1) : header_stack[j] = None]

GetCurrentHeader(header_stack) ==
    IF \A i \in 1..3 : header_stack[i] = None THEN None
    ELSE header_stack[CHOOSE i \in 1..3 :
                         header_stack[i] # None /\ \A j \in (i + 1)..3 : header_stack[j] = None]

\* PDFProcessor's chunker, SemanticChunker(settings.chunk_size,
\* settings.chunk_overlap) with the default settings and the default
\* min_chunk_size, and one with the smallest chunk_size the settings allow.
DefaultChunker == [chunk_size |-> 600, chunk_overlap |-> 80, min_chunk_size |-> 50]

SmallChunker == [chunk_size |-> 100, chunk_overlap |-> 20, min_chunk_size |-> 50]

\* The locals of chunk_text before its loop.
ChunkStart ==
    [chunks |-> <<>>, header_stack |-> <<None, None, None>>, current_content |-> <<>>,
     current_size |-> 0, char_pos |-> 0, chunk_start |-> 0,
     in_code_block |-> FALSE, in_table |-> FALSE]

\* chunk_text's flush_chunk(chunk_type) on the locals st: nothing happens on
\* an empty buffer or on one whose stripped text is under min_chunk_size.
FlushChunk(cfg, st, chunk_type) ==
    LET chunk_text == Strip(Join(st.current_content))
        header == GetCurrentHeader(st.header_stack)
        parent == GetParentHeader(st.header_stack)
        display_text == IF header # None
                        THEN <<"#", "#", " ">> \o header \o <<NL, NL>> \o chunk_text
                        ELSE chunk_text
    IN IF st.current_content = <<>> THEN st
       ELSE IF Len(chunk_text) < cfg.min_chunk_size THEN st
       ELSE [st EXCEPT
               !.chunks = Append(@,
                   [text |-> display_text,
                    header |-> header,
                    parent_header |-> IF parent # header THEN parent ELSE None,
                    chunk_type |-> chunk_type,
                    char_start |-> st.chunk_start,
                    char_end |-> st.char_pos,
                    sentence_count |-> CountSentences(chunk_text),
                    importance_score |-> ComputeImportance(chunk_text, chunk_type,
                                                           header # None)]),
               !.current_content = <<>>,
               !.current_size = 0,
               !.chunk_start = st.char_pos]

\* buffer.append(line); current_size += line_len
Buffer(st, line) ==
    [st EXCEPT !.current_content = Append(@, line), !.current_size = @ + Len(line) + 1]

\* char_pos += line_len
Advance(st, line) == [st EXCEPT !.char_pos = @ + Len(line) + 1]

\* A header that leaves the deeper levels as they are: not what chunk_text does.
SetHeaderKeepDeeper(header_stack, header_text, level) ==
    LET idx == Min(level - 1, 2) + 1
    IN [i \in 1..3 |-> IF i = idx THEN header_text ELSE header_stack[i]]

\* header_stack[idx] = header_text, the deeper levels cleared.
SetHeader(header_stack, header_text, level) ==
    LET idx == Min(level - 1, 2) + 1
    IN [i \in 1..3 |-> IF i < idx THEN header_stack[i]
                       ELSE IF i = idx THEN header_text ELSE None]

\* The "Regular content" branch of the loop for a non-blank line: the line is
\* buffered, or, when it would take the buffer over chunk_size, the buffer and
\* the line are split at a sentence boundary, the first part flushed and the
\* overlap and the remainder buffered.
RegularContent(cfg, st, line) ==
    IF st.current_size + Len(line) + 1 > cfg.chunk_size /\ st.current_content # <<>>
    THEN LET full_text == Join(st.current_content) \o <<NL>> \o line
             parts == SplitAtSentenceBoundary(cfg, full_text, cfg.chunk_size)
             flushed == FlushChunk(cfg, [st EXCEPT !.current_content = <<parts.first>>,
                                                   !.current_size = Len(parts.first)],
                                   "paragraph")
             overlap_text == IF cfg.chunk_overlap > 0
                             THEN From(parts.first,
                                       Max(1, Len(parts.first) - cfg.chunk_overlap + 1))
                             ELSE <<>>
         IN IF parts.rest = <<>> THEN flushed
            ELSE IF overlap_text # <<>>
            THEN [flushed EXCEPT !.current_content = <<overlap_text, parts.rest>>,
                                 !.current_size = Len(overlap_text) + Len(parts.rest)]
            ELSE [flushed EXCEPT !.current_content = <<parts.rest>>,
                                 !.current_size = Len(parts.rest)]
    ELSE Buffer(st, line)

\* One pass of chunk_text's loop "for line in lines".
ChunkLine(cfg, st, line) ==
    IF IsCodeFence(line)
    THEN IF st.in_code_block
         THEN Advance(FlushChunk(cfg, [Buffer(st, line) EXCEPT !.in_code_block = FALSE],
                                 "code"), line)
         ELSE Advance([Buffer(FlushChunk(cfg, st, "paragraph"), line)
                         EXCEPT !.in_code_block = TRUE], line)
    ELSE IF st.in_code_block THEN Advance(Buffer(st, line), line)
    ELSE IF IsTableLine(line)
    THEN Advance(Buffer(IF st.in_table THEN st
                        ELSE [FlushChunk(cfg, st, "paragraph") EXCEPT !.in_table = TRUE],
                        line), line)
    ELSE LET st1 == IF st.in_table
                    THEN FlushChunk(cfg, [st EXCEPT !.in_table = FALSE], "table")
                    ELSE st
             header_info == DetectHeader(line)
         IN IF header_info.found
            THEN LET st2 == FlushChunk(cfg, st1, "paragraph")
                 IN Advance([st2 EXCEPT
                               !.header_stack = SetHeader(@, header_info.text,
                                                          header_info.level),
                               !.chunk_start = st2.char_pos], line)
            ELSE IF Strip(line) # <<>> THEN Advance(RegularContent(cfg, st1, line), line)
            ELSE Advance(st1, line)

RECURSIVE ChunkLines(_, _, _)
ChunkLines(cfg, st, lines) ==
    IF lines = <<>> THEN st
    ELSE ChunkLines(cfg, ChunkLine(cfg, st, Head(lines)), Tail(lines))

\* SemanticChunker.chunk_text(text, page, filename): the chunks of one page.
ChunkText(cfg, text) ==
    IF Len(Strip(text)) < 30 THEN <<>>
    ELSE LET st == ChunkLines(cfg, ChunkStart, SplitLines(text))
         IN FlushChunk(cfg, st, IF st.in_code_block THEN "code"
                                ELSE IF st.in_table THEN "table"
                                ELSE "paragraph").chunks

\* ---------------------------------------------------------- query expansion

Queries == {<<"ssrf">>, <<"sqli">>}

\* The entries of QueryExpander.EXPANSIONS whose keys can occur in a modelled
\* query; a phrase is the sequence of its words.
EXPANSIONS ==
    [key \in {<<"sqli">>, <<"sql", "injection">>, <<"ssrf">>} |->
        CASE key = <<"sqli">> ->
                {<<"sql", "injection">>, <<"sqli">>, <<"database", "injection">>}
          [] key = <<"sql", "injection">> ->
                {<<"sqli">>, <<"sql", "injection">>, <<"database", "injection">>}
          [] OTHER ->
                {<<"server-side", "request", "forgery">>, <<"ssrf">>}]

\* QueryExpander.SUBJECT_CONTEXT[subject_id][:3]; of its keys only 'ctf' is
\* spelled with modelled characters.
SubjectContext(subject_id) ==
    IF subject_id = <<"c", "t", "f">>
    THEN <<<<"flag">>, <<"challenge">>, <<"crypto">>>>
    ELSE <<>>

\* key in lower_query, for a key and a query given as words.
Occurs(key, query) ==
    \E i \in 1..Len(query) :
        i + Len(key) - 1 <= Len(query) /\ SubSeq(query, i, i + Len(key) - 1) = key

RECURSIVE Flatten(_)
Flatten(phrases) ==
    IF phrases = <<>> THEN <<>> ELSE Head(phrases) \o Flatten(Tail(phrases))

\* str.lower on a word: the modelled words with capitals, and their lower case.
Lower(word) ==
    CASE word = "SSRF" -> "ssrf"
      [] word = "Flag" -> "flag"
      [] OTHER -> word

\* lower_query = query.lower().strip(), word by word.
LowerQuery(query) == [i \in 1..Len(query) |-> Lower(query[i])]

\* The set expansion_terms of QueryExpander.expand, from lower_query.
ExpansionTerms(query, subject_id) ==
    UNION {EXPANSIONS[key] : key \in {k \in DOMAIN EXPANSIONS : Occurs(k, query)}}
    \cup {SubjectContext(subject_id)[i] : i \in
            {j \in 1..Len(SubjectContext(subject_id)) :
                ~Occurs(SubjectContext(subject_id)[j], query)}}

\* QueryExpander.expand: the strings it may return, one for each order in which
\* the set difference is joined (set iteration order is not fixed).
\* An expansion built on lower_query instead of the query as given: not what
\* expand returns.
ExpandLowered(query, subject_id) ==
    LET lower_query == LowerQuery(query)
        terms == ExpansionTerms(lower_query, subject_id)
        extra == terms \ {<<lower_query[i]>> : i \in 1..Len(lower_query)}
    IN IF terms = {} THEN {[query |-> query, expanded |-> FALSE]}
       ELSE {[query |-> lower_query \o Flatten(o), expanded |-> TRUE] :
                o \in Orderings(extra)}

Expand(query, subject_id) ==
    LET lower_query == LowerQuery(query)
        terms == ExpansionTerms(lower_query, subject_id)
        extra == terms \ {<<lower_query[i]>> : i \in 1..Len(lower_query)}
    IN IF terms = {} THEN {[query |-> query, expanded |-> FALSE]}
       ELSE {[query |-> query \o Flatten(o), expanded |-> TRUE] : o \in Orderings(extra)}

\* ------------------------------------------------------------- search maths

RRF_K == 60

\* search: candidate_count = min(limit * 4, total, 20)
PoolCap == 20

\* A dense share with the constant 40 for RRF_K, and a BM25 share of weight 0.8:
\* not what _reciprocal_rank_fusion computes.
VectorShareSmallK(rank) == 60000000 \div (40 + rank)

Bm25ShareHeavy(rank) == 80000000 \div (RRF_K + rank)

\* vector_weight / (RRF_K + rank) and bm25_weight / (RRF_K + rank), in 1e-8.
VectorShare(rank) == 60000000 \div (RRF_K + rank)

Bm25Share(rank) == 40000000 \div (RRF_K + rank)

RankIn(ids, id) == CHOOSE i \in 1..Len(ids) : ids[i] = id

\* _reciprocal_rank_fusion: fused_scores as (id, score) items in insertion order,
\* the vector results first, then the BM25 results not among them.
ReciprocalRankFusion(vector_ids, bm25_ids) ==
    LET order == vector_ids \o SelectSeq(bm25_ids, LAMBDA d : d \notin Range(vector_ids))
    IN [i \in 1..Len(order) |->
          [id |-> order[i],
           score |-> (IF order[i] \in Range(vector_ids)
                      THEN VectorShare(RankIn(vector_ids, order[i])) ELSE 0)
                   + (IF order[i] \in Range(bm25_ids)
                      THEN Bm25Share(RankIn(bm25_ids, order[i])) ELSE 0)]]

\* A similarity rescaled to [0, 1], 1 - distance / 2: not what search computes.
VectorScoreHalved(distance) == RoundDiv(200000 - distance, 20)

\* similarity = 1 - distance, distance in 1e-5; 'vector_score': round(similarity, 4)
\* in 1e-4.
VectorScore(distance) == RoundDiv(100000 - distance, 10)

\* search: the candidate list built from fused_ranked[:candidate_count].
\* docs maps each id to its text, metadata and vector_score (vector_docs).
Candidates(fused_ranked, docs, candidate_count) ==
    LET top == Take(fused_ranked, candidate_count)
    IN [i \in 1..Len(top) |->
          [id |-> top[i].id,
           text |-> docs[top[i].id].text,
           metadata |-> docs[top[i].id].metadata,
           vector_score |-> docs[top[i].id].vector_score,
           rrf_score |-> RoundDiv(top[i].score, 100),
           importance |-> docs[top[i].id].metadata.importance,
           score |-> RoundDiv(top[i].score * docs[top[i].id].metadata.importance, 10000),
           has_rerank |-> FALSE,
           rerank_score |-> 0]]

\* A reranking that attaches the scores and keeps the fused order: not what
\* _rerank does.
RerankUnsorted(candidates, ce_scores, top_k) ==
    Take([i \in 1..Len(candidates) |->
             [candidates[i] EXCEPT !.has_rerank = TRUE, !.rerank_score = ce_scores[i]]],
         top_k)

\* _rerank, the cross-encoder having returned ce_scores (1e-6):
\* candidate['rerank_score'] = scores[i]; sorted by it, descending; [:top_k].
Rerank(candidates, ce_scores, top_k) ==
    LET scored == [i \in 1..Len(candidates) |->
                     [candidates[i] EXCEPT !.has_rerank = TRUE,
                                           !.rerank_score = ce_scores[i]]]
    IN Take(SortDesc(scored, ce_scores), top_k)

\* A fallback that returns every candidate: not what _rerank does.
RerankFailedUncut(candidates, top_k) == candidates

\* _rerank, cross_encoder.predict having raised: candidates[:top_k].
RerankFailed(candidates, top_k) == Take(candidates, top_k)

\* search, "Format output": final_score = r.get('rerank_score', r.get('score'));
\* 'score': round(final_score, 4), in 1e-4; rrf_score stays in 1e-6.
Matches(final_results) ==
    [i \in 1..Len(final_results) |->
        [id |-> final_results[i].id,
         text |-> final_results[i].text,
         metadata |-> final_results[i].metadata,
         score |-> RoundDiv(IF final_results[i].has_rerank
                            THEN final_results[i].rerank_score
                            ELSE final_results[i].score, 100),
         vector_score |-> final_results[i].vector_score,
         rrf_score |-> final_results[i].rrf_score]]

\* ---------------------------------------------------------------- the state

VARIABLES
    dense,              \* the persisted ChromaDB store: collection name -> records
    collections_cache,  \* VectorStore._collections: the names it holds
    bm25_indices,       \* VectorStore._bm25_indices: subject id -> BM25Index
    cross_encoder,      \* VectorStore.cross_encoder is loaded (not None)
    tasks,              \* requests suspended at an await, as a bag
    last,               \* the operation that returned last, and what it returned
    rt                  \* the ingest that has just returned, with the ids before it

vars == <<dense, collections_cache, bm25_indices, cross_encoder, tasks, last, rt>>

NoLast == [op |-> "none", subject_id |-> <<>>, document_id |-> <<>>, out |-> <<>>]

NoRt ==
    [phase |-> "none", subject_id |-> <<>>, document_id |-> <<>>,
     dense_ids |-> {}, bm25_ids |-> {}, doc_count |-> 0, n |-> 0, fresh |-> FALSE]

\* The ids of a subject's dense collection and BM25 index.
RecordIds(recs) == {recs[i].id : i \in 1..Len(recs)}

DenseOf(subject_id) ==
    IF CollectionName(subject_id) \in DOMAIN dense
    THEN dense[CollectionName(subject_id)] ELSE <<>>

DenseIds(subject_id) == RecordIds(DenseOf(subject_id))

Bm25Of(subject_id) ==
    IF subject_id \in DOMAIN bm25_indices THEN bm25_indices[subject_id] ELSE NewBM25

Bm25IdsOf(subject_id) == BM25Ids(Bm25Of(subject_id))

\* client.get_or_create_collection(name)
GetOrCreate(store, name) == IF name \in DOMAIN store THEN store ELSE Put(store, name, <<>>)

\* _get_bm25: the map after the call.
GetBm25(indices, subject_id) ==
    IF subject_id \in DOMAIN indices THEN indices ELSE Put(indices, subject_id, NewBM25)

\* collection.add: a record whose id the collection already holds is ignored.
CollectionAdd(recs, new) ==
    recs \o SelectSeq(new, LAMBDA r : r.id \notin RecordIds(recs))

\* collection.get(where={"document_id": document_id})['ids']
IdsOfDocument(recs, document_id) ==
    {recs[i].id : i \in {j \in 1..Len(recs) : recs[j].metadata.document_id = document_id}}

\* collection.delete(ids=ids)
CollectionDelete(recs, ids) == SelectSeq(recs, LAMBDA r : r.id \notin ids)

\* for doc_id, text, metadata in zip(...): bm25.add_document(doc_id, text, metadata)
RECURSIVE AddAll(_, _)
AddAll(b, recs) ==
    IF recs = <<>> THEN b
    ELSE AddAll(AddDocument(b, Head(recs).id, Head(recs).text, Head(recs).metadata),
                Tail(recs))

\* for doc_id in results['ids']: bm25.remove_document(doc_id)
RECURSIVE RemoveAllIds(_, _)
RemoveAllIds(b, ids) ==
    IF ids = {} THEN b
    ELSE LET x == CHOOSE y \in ids : TRUE
         IN RemoveAllIds(RemoveDocument(b, x), ids \ {x})

\* initialize on an empty persist directory; the cross-encoder may fail to load.
Init ==
    /\ dense = EmptyMap
    /\ collections_cache = {}
    /\ bm25_indices = EmptyMap
    /\ cross_encoder \in BOOLEAN
    /\ tasks = EmptyBag
    /\ last = NoLast
    /\ rt = NoRt

InFlight == BagCardinality(tasks)

Suspend(t) == tasks (+) SetToBag({t})

Resume(t) == tasks (-) SetToBag({t})

\* Ids and chunk counts that suspended ingests will still add.
PendingIds(col_name) ==
    UNION {RecordIds(Records(t.document_id, ChunksOf(t.content))) :
             t \in {u \in BagToSet(tasks) :
                      u.kind = "ingest" /\ CollectionName(u.subject_id) = col_name}}

PendingCount(subject_id) ==
    LET ts == {u \in BagToSet(tasks) : u.kind = "ingest" /\ u.subject_id = subject_id}
        n == [u \in ts |-> CopiesIn(u, tasks) * Len(ChunksOf(u.content))]
    IN SumOver(n, ts)

\* ------------------------------------------------------------------ ingest

\* upload_document -> RAGProcessor.process_document -> add_chunks, up to its
\* await of the embedding: the subject id is validated, the document chunked,
\* the collection and the BM25 index fetched or created.
Upload(subject_id, content) ==
    LET chunks == ChunksOf(content)
        document_id == DocumentId(subject_id, content)
        col == CollectionName(subject_id)
    IN /\ SubjectIdValid(subject_id)
       /\ InFlight < MaxTasks
       /\ Cardinality(DenseIds(subject_id) \cup PendingIds(col)
                      \cup RecordIds(Records(document_id, chunks))) <= MaxRecords
       /\ Bm25Of(subject_id).doc_count + PendingCount(subject_id) + Len(chunks)
             <= MaxDocCount
       /\ IF chunks = <<>>
          THEN /\ last' = [op |-> "ingest", subject_id |-> subject_id,
                           document_id |-> document_id, out |-> 0]
               /\ UNCHANGED <<dense, collections_cache, bm25_indices, tasks>>
          ELSE /\ dense' = IF col \in collections_cache THEN dense
                           ELSE GetOrCreate(dense, col)
               /\ collections_cache' = collections_cache \cup {col}
               /\ bm25_indices' = GetBm25(bm25_indices, subject_id)
               /\ tasks' = Suspend([kind |-> "ingest", pc |-> "embed",
                                    subject_id |-> subject_id,
                                    document_id |-> document_id,
                                    content |-> content])
               /\ last' = last
       /\ rt' = NoRt
       /\ UNCHANGED cross_encoder

\* add_chunks after the embedding returned: collection.add, then
\* bm25.add_document for every chunk, with no await in between.
AddChunks(t) ==
    LET col == CollectionName(t.subject_id)
        new == Records(t.document_id, ChunksOf(t.content))
    IN /\ BagIn(t, tasks)
       /\ t.kind = "ingest"
       /\ dense' = [dense EXCEPT ![col] = CollectionAdd(@, new)]
       /\ bm25_indices' = [bm25_indices EXCEPT ![t.subject_id] = AddAll(@, new)]
       /\ tasks' = Resume(t)
       /\ last' = [op |-> "ingest", subject_id |-> t.subject_id,
                   document_id |-> t.document_id, out |-> Len(new)]
       /\ rt' = [phase |-> "ingested", subject_id |-> t.subject_id,
                 document_id |-> t.document_id,
                 dense_ids |-> DenseIds(t.subject_id),
                 bm25_ids |-> Bm25IdsOf(t.subject_id),
                 doc_count |-> Bm25Of(t.subject_id).doc_count,
                 n |-> Len(new),
                 fresh |-> RecordIds(new) \cap
                             (DenseIds(t.subject_id) \cup Bm25IdsOf(t.subject_id)) = {}]
       /\ UNCHANGED <<collections_cache, cross_encoder>>

\* ------------------------------------------------------------------ delete

\* A loop body that empties a collection in which it finds no chunk of the
\* document: not what delete_document does.
DeleteInEmptying(st, col_name, document_id) ==
    IF IdsOfDocument(st.dense[col_name], document_id) = {}
    THEN [dense |-> [st.dense EXCEPT ![col_name] = <<>>], bm25 |-> st.bm25]
    ELSE st

\* The body of delete_document's loop for one cached collection, on the pair
\* st = [dense, bm25].
DeleteIn(st, col_name, document_id) ==
    LET ids == IdsOfDocument(st.dense[col_name], document_id)
        subject_id == SubjectOfCollection(col_name)
    IN IF ids = {} THEN st
       ELSE [dense |-> [st.dense EXCEPT ![col_name] = CollectionDelete(@, ids)],
             bm25 |-> IF subject_id \in DOMAIN st.bm25
                      THEN [st.bm25 EXCEPT ![subject_id] = RemoveAllIds(@, ids)]
                      ELSE st.bm25]

\* for col_name, collection in self._collections.items(): ...
RECURSIVE DeleteLoop(_, _, _)
DeleteLoop(st, cols, document_id) ==
    IF cols = {} THEN st
    ELSE LET c == CHOOSE x \in cols : TRUE
         IN DeleteLoop(DeleteIn(st, c, document_id), cols \ {c}, document_id)

\* The ids delete_document's loop finds in the cached collections.
FoundIds(document_id) ==
    UNION {IdsOfDocument(dense[c], document_id) : c \in collections_cache}

\* What is kept of a delete_document that returned: the ingest it followed, if
\* it was of the same document, and the number of ids it found.
DeleteOut(snap, found) ==
    [phase |-> snap.phase, subject_id |-> snap.subject_id,
     document_id |-> snap.document_id, dense_ids |-> snap.dense_ids,
     bm25_ids |-> snap.bm25_ids, doc_count |-> snap.doc_count, n |-> snap.n,
     fresh |-> snap.fresh, found |-> found]

\* VectorStore.delete_document: it has no await.
DeleteDocument(document_id) ==
    LET st == DeleteLoop([dense |-> dense, bm25 |-> bm25_indices],
                         collections_cache, document_id)
    IN /\ dense' = st.dense
       /\ bm25_indices' = st.bm25
       /\ last' = [op |-> "delete", subject_id |-> <<>>,
                   document_id |-> document_id,
                   out |-> DeleteOut(IF rt.document_id = document_id THEN rt ELSE NoRt,
                                     Cardinality(FoundIds(document_id)))]
       /\ rt' = NoRt
       /\ UNCHANGED <<collections_cache, cross_encoder, tasks>>

\* -------------------------------------------------------------------- list

\* One entry for every record instead of one for every document: not what
\* list_documents reports.
DocumentListPerChunk(recs) ==
    {[document_id |-> recs[i].metadata.document_id,
      chunk_count |-> 1,
      chunk_types |-> {recs[i].metadata.chunk_type}] : i \in 1..Len(recs)}

\* The documents list_documents reports for the records of a collection.
DocumentList(recs) ==
    {[document_id |-> d,
      chunk_count |-> Cardinality(IdsOfDocument(recs, d)),
      chunk_types |-> {recs[i].metadata.chunk_type :
                          i \in {j \in 1..Len(recs) : recs[j].metadata.document_id = d}}] :
       d \in {recs[i].metadata.document_id : i \in 1..Len(recs)}}

\* VectorStore.list_documents
ListDocuments(subject_id) ==
    LET col == CollectionName(subject_id)
        store == IF col \in collections_cache THEN dense ELSE GetOrCreate(dense, col)
    IN /\ dense' = store
       /\ collections_cache' = collections_cache \cup {col}
       /\ last' = [op |-> "list", subject_id |-> subject_id, document_id |-> <<>>,
                   out |-> DocumentList(store[col])]
       /\ rt' = NoRt
       /\ UNCHANGED <<bm25_indices, cross_encoder, tasks>>

\* ----------------------------------------------------------------- startup

\* _rebuild_bm25_indices over the collections in the order list_collections
\* gives them: a non-empty sentinel_* collection gets a fresh index under the
\* subject id derived from its name.
RECURSIVE Rebuild(_, _)
Rebuild(indices, cols) ==
    IF cols = <<>> THEN indices
    ELSE LET c == Head(cols)
             next == IF StartsWith(c, SENTINEL) /\ dense[c] # <<>>
                     THEN Put(indices, SubjectOfCollection(c), AddAll(NewBM25, dense[c]))
                     ELSE indices
         IN Rebuild(next, Tail(cols))

\* Shutdown (close) and the next startup (initialize) on the persisted store.
Restart ==
    /\ tasks = EmptyBag
    /\ collections_cache' = {}
    /\ \E order \in Orderings(DOMAIN dense) : bm25_indices' = Rebuild(EmptyMap, order)
    /\ cross_encoder' \in BOOLEAN
    /\ last' = [op |-> "restart", subject_id |-> <<>>, document_id |-> <<>>, out |-> 0]
    /\ rt' = NoRt
    /\ UNCHANGED <<dense, tasks>>

\* ------------------------------------------------------------------ search

\* Cosine distances (1e-5) the dense store may report for the results of one
\* query, by rank: base + (rank - 1) * step, at most 2.
DistanceBases == {4, 120000}

DistanceSteps == {0, 40000}

Distance(base, step, rank) == Min(200000, base + (rank - 1) * step)

\* Scores (1e-6) the cross-encoder may give a candidate.
CrossEncoderScores == {-1500000, 250049}

\* collection.query(n_results=n): the n nearest records, nearest first, of the
\* records as the embedding model orders them by distance to the query.
QueryResults(order, n) == Take(order, n)

NoMetadata == [document_id |-> <<>>, chunk_type |-> "", importance |-> 100]

\* search: vector_docs after both result loops.
VectorDocs(vector_results, base, step, bm25_ranked, b) ==
    [id \in RecordIds(vector_results) \cup {bm25_ranked[i].id : i \in 1..Len(bm25_ranked)} |->
        IF id \in RecordIds(vector_results)
        THEN LET rank == CHOOSE i \in 1..Len(vector_results) : vector_results[i].id = id
             IN [text |-> vector_results[rank].text,
                 metadata |-> vector_results[rank].metadata,
                 vector_score |-> VectorScore(Distance(base, step, rank))]
        ELSE [text |-> IF id \in DOMAIN b.doc_texts THEN b.doc_texts[id] ELSE <<>>,
              metadata |-> IF id \in DOMAIN b.doc_metadata
                           THEN b.doc_metadata[id] ELSE NoMetadata,
              vector_score |-> 0]]

\* vector_results_raw['distances'][0] by id: what the dense store reported.
DistancesOf(vector_results, base, step) ==
    [id \in RecordIds(vector_results) |->
        Distance(base, step, CHOOSE i \in 1..Len(vector_results) : vector_results[i].id = id)]

\* What search returns, with the arguments of the call, the distances the dense
\* store reported, the candidate list and what became of the reranking
\* ("none": not attempted, "done", "failed": the cross-encoder raised) kept
\* beside it.
SearchResult(t, final_results, search_method, distances) ==
    [op |-> "search", subject_id |-> t.subject_id, document_id |-> <<>>,
     out |-> [matches |-> Matches(final_results),
              total_searched |-> t.total,
              search_method |-> search_method,
              query_expanded |-> t.expanded,
              limit |-> t.limit,
              use_reranking |-> t.use_reranking,
              candidates |-> Len(t.candidates),
              distances |-> distances,
              pool |-> t.candidates,
              rerank |-> "none",
              ce_scores |-> <<>>]]

\* search up to its await of the query embedding: collection and index are
\* fetched or created, the collection counted, the query expanded.
SearchStart(subject_id, query, limit, use_expansion, use_reranking) ==
    LET col == CollectionName(subject_id)
        store == IF col \in collections_cache THEN dense ELSE GetOrCreate(dense, col)
        total == Len(store[col])
        t0 == [kind |-> "search", pc |-> "embed", subject_id |-> subject_id,
               query |-> query, search_query |-> query, expanded |-> FALSE,
               limit |-> limit, use_reranking |-> use_reranking,
               total |-> total, candidates |-> <<>>, distances |-> EmptyMap]
    IN /\ InFlight < MaxTasks
       /\ dense' = store
       /\ collections_cache' = collections_cache \cup {col}
       /\ bm25_indices' = GetBm25(bm25_indices, subject_id)
       /\ IF total = 0
          THEN /\ last' = [op |-> "search", subject_id |-> subject_id,
                           document_id |-> <<>>,
                           out |-> [matches |-> <<>>, total_searched |-> 0,
                                    search_method |-> "none", query_expanded |-> FALSE,
                                    limit |-> limit, use_reranking |-> use_reranking,
                                    candidates |-> 0, distances |-> EmptyMap,
                                    pool |-> <<>>, rerank |-> "none",
                                    ce_scores |-> <<>>]]
               /\ tasks' = tasks
          ELSE /\ \E e \in (IF use_expansion THEN Expand(query, subject_id)
                            ELSE {[query |-> query, expanded |-> FALSE]}) :
                     tasks' = Suspend([t0 EXCEPT !.search_query = e.query,
                                                 !.expanded = e.expanded])
               /\ last' = last
       /\ rt' = NoRt
       /\ UNCHANGED cross_encoder

\* search from the query embedding to the rerank decision: the dense query, the
\* BM25 search, the fusion and the candidate list, with no await in between.
SearchQuery(t, order, base, step) ==
    LET col == CollectionName(t.subject_id)
        b == bm25_indices[t.subject_id]
        candidate_count == Min(Min(t.limit * 4, t.total), PoolCap)
        vector_results == QueryResults(order, candidate_count)
    IN /\ BagIn(t, tasks)
       /\ t.kind = "search"
       /\ t.pc = "embed"
       /\ IF SearchRaises(b, t.search_query)
          THEN /\ tasks' = Resume(t)
               /\ last' = [op |-> "search_failed", subject_id |-> t.subject_id,
                           document_id |-> <<>>, out |-> 0]
          ELSE /\ order \in Orderings(Range(dense[col]))
               /\ LET bm25_ranked == BM25Search(b, t.search_query, candidate_count)
                      vector_docs == VectorDocs(vector_results, base, step, bm25_ranked, b)
                      fused_ranked ==
                          SortByScoreDesc(ReciprocalRankFusion(
                              [i \in 1..Len(vector_results) |-> vector_results[i].id],
                              [i \in 1..Len(bm25_ranked) |-> bm25_ranked[i].id]))
                      candidates == Candidates(fused_ranked, vector_docs, candidate_count)
                      distances == DistancesOf(vector_results, base, step)
                  IN IF t.use_reranking /\ cross_encoder /\ Len(candidates) > 1
                     THEN /\ tasks' = Resume(t) (+)
                                      SetToBag({[t EXCEPT !.pc = "rerank",
                                                          !.candidates = candidates,
                                                          !.distances = distances]})
                          /\ last' = last
                     ELSE /\ tasks' = Resume(t)
                          /\ last' = SearchResult([t EXCEPT !.candidates = candidates],
                                                  Take(candidates, t.limit), "hybrid",
                                                  distances)
       /\ rt' = NoRt
       /\ UNCHANGED <<dense, collections_cache, bm25_indices, cross_encoder>>

\* search after the executor ran _rerank: the cross-encoder scored every
\* candidate, or raised and _rerank fell back to candidates[:top_k].
SearchRerank(t, raised, ce_scores) ==
    /\ BagIn(t, tasks)
    /\ t.kind = "search"
    /\ t.pc = "rerank"
    /\ Len(ce_scores) = Len(t.candidates)
    /\ tasks' = Resume(t)
    /\ last' = [SearchResult(t, IF raised THEN RerankFailed(t.candidates, t.limit)
                                ELSE Rerank(t.candidates, ce_scores, t.limit),
                             "hybrid+rerank", t.distances)
                EXCEPT !.out.rerank = IF raised THEN "failed" ELSE "done",
                       !.out.ce_scores = IF raised THEN <<>> ELSE ce_scores]
    /\ rt' = NoRt
    /\ UNCHANGED <<dense, collections_cache, bm25_indices, cross_encoder>>

\* search cancelled while suspended at an await (the query embedding or the
\* reranking in the executor): the CancelledError leaves search, and what it
\* had computed is dropped.
SearchCancelled(t) ==
    /\ BagIn(t, tasks)
    /\ t.kind = "search"
    /\ tasks' = Resume(t)
    /\ last' = [op |-> "search_cancelled", subject_id |-> t.subject_id,
                document_id |-> <<>>, out |-> t.pc]
    /\ rt' = NoRt
    /\ UNCHANGED <<dense, collections_cache, bm25_indices, cross_encoder>>

\* ------------------------------------------------------------ failed ingest

\* What a failed add_chunks leaves for its caller: the exception, with the ids
\* both indices of the subject held before the call.
IngestFailed(t) ==
    [op |-> "ingest_failed", subject_id |-> t.subject_id, document_id |-> t.document_id,
     out |-> [dense_ids |-> DenseIds(t.subject_id), bm25_ids |-> Bm25IdsOf(t.subject_id)]]

\* add_chunks, the embedding call having raised: nothing was added yet, and the
\* exception leaves add_chunks.
EmbedRaises(t) ==
    /\ BagIn(t, tasks)
    /\ t.kind = "ingest"
    /\ tasks' = Resume(t)
    /\ last' = IngestFailed(t)
    /\ rt' = NoRt
    /\ UNCHANGED <<dense, collections_cache, bm25_indices, cross_encoder>>

\* add_chunks, collection.add having raised and added nothing: the BM25 loop is
\* not reached.
DenseAddRaises(t) ==
    /\ BagIn(t, tasks)
    /\ t.kind = "ingest"
    /\ tasks' = Resume(t)
    /\ last' = IngestFailed(t)
    /\ rt' = NoRt
    /\ UNCHANGED <<dense, collections_cache, bm25_indices, cross_encoder>>

\* add_chunks, bm25.add_document having raised on entry for the k-th chunk:
\* collection.add is done, the first k - 1 chunks are in the BM25 index, and
\* add_chunks has no handler.
Bm25AddRaises(t, k) ==
    LET col == CollectionName(t.subject_id)
        new == Records(t.document_id, ChunksOf(t.content))
    IN /\ BagIn(t, tasks)
       /\ t.kind = "ingest"
       /\ k \in 1..Len(new)
       /\ dense' = [dense EXCEPT ![col] = CollectionAdd(@, new)]
       /\ bm25_indices' = [bm25_indices EXCEPT
                              ![t.subject_id] = AddAll(@, SubSeq(new, 1, k - 1))]
       /\ tasks' = Resume(t)
       /\ last' = IngestFailed(t)
       /\ rt' = NoRt
       /\ UNCHANGED <<collections_cache, cross_encoder>>

\* A cancellation that would reach add_chunks between collection.add and the
\* BM25 loop: not possible, add_chunks has no await there.
IngestCancelledAfterAdd(t) ==
    LET col == CollectionName(t.subject_id)
        new == Records(t.document_id, ChunksOf(t.content))
    IN /\ BagIn(t, tasks)
       /\ t.kind = "ingest"
       /\ dense' = [dense EXCEPT ![col] = CollectionAdd(@, new)]
       /\ tasks' = Resume(t)
       /\ last' = [op |-> "ingest_cancelled", subject_id |-> t.subject_id,
                   document_id |-> t.document_id, out |-> t.pc]
       /\ rt' = NoRt
       /\ UNCHANGED <<collections_cache, bm25_indices, cross_encoder>>

\* add_chunks cancelled at its one suspension point, the await of the
\* embedding in the executor: the CancelledError leaves add_chunks before
\* collection.add and the BM25 loop, which run with no await after it.
IngestCancelled(t) ==
    /\ BagIn(t, tasks)
    /\ t.kind = "ingest"
    /\ tasks' = Resume(t)
    /\ last' = [op |-> "ingest_cancelled", subject_id |-> t.subject_id,
                document_id |-> t.document_id, out |-> t.pc]
    /\ rt' = NoRt
    /\ UNCHANGED <<dense, collections_cache, bm25_indices, cross_encoder>>

\* ----------------------------------------------------------- specifications

\* The response of the operation that just returned goes out to its caller.
Respond ==
    /\ last # NoLast
    /\ last' = NoLast
    /\ UNCHANGED <<dense, collections_cache, bm25_indices, cross_encoder, tasks, rt>>

\* No response is pending: a pending one is sent before anything else runs.
Idle == last = NoLast

\* No request is suspended at an await.
Quiet == tasks = EmptyBag

Ingests == {t \in BagToSet(tasks) : t.kind = "ingest"}

Searches == {t \in BagToSet(tasks) : t.kind = "search"}

\* The scores a cross-encoder may return for n candidates.
ScoreLists(n) == [1..n -> CrossEncoderScores]

\* The HTTP server: one request runs from its start or from an await to its next
\* await or its end.  search_documents passes subject, query and limit only, so
\* use_expansion and use_reranking have their defaults; the embedding model
\* orders the records as stored and the cross-encoder scores them alike.
Next ==
    \/ Respond
    \/ Idle /\ \E s \in SubjectIds, c \in Contents : Upload(s, c)
    \/ Idle /\ \E t \in Ingests : AddChunks(t)
    \/ Idle /\ \E d \in DocumentIds : DeleteDocument(d)
    \/ Idle /\ \E s \in SubjectIds : ListDocuments(s)
    \/ Idle /\ \E s \in SubjectIds, limit \in 1..MaxLimit :
                  SearchStart(s, <<"ssrf">>, limit, TRUE, TRUE)
    \/ Idle /\ \E t \in Searches : SearchQuery(t, DenseOf(t.subject_id), 4, 40000)
    \/ Idle /\ \E t \in Searches, raised \in BOOLEAN :
                  SearchRerank(t, raised, [i \in 1..Len(t.candidates) |-> 250049])
    \/ Idle /\ \E t \in Searches : SearchCancelled(t)
    \/ Idle /\ Restart

Spec == Init /\ [][Next]_vars

\* Ranking: requests one at a time on one subject, with every order the
\* embedding model may give the records, every modelled distance and every
\* cross-encoder outcome, and every combination of search's flags.
SearchContents == {"h1", "h2"}

NextSearch ==
    \/ Respond
    \/ Idle /\ Quiet /\ \E c \in SearchContents : Upload(SubjHyphen, c)
    \/ Idle /\ \E t \in Ingests : AddChunks(t)
    \/ Idle /\ Quiet /\ \E query \in Queries, limit \in 1..MaxLimit,
                           use_expansion \in BOOLEAN, use_reranking \in BOOLEAN :
                  SearchStart(SubjHyphen, query, limit, use_expansion, use_reranking)
    \/ Idle /\ \E t \in Searches, base \in DistanceBases, step \in DistanceSteps :
                  \E order \in Orderings(Range(DenseOf(t.subject_id))) :
                      SearchQuery(t, order, base, step)
    \/ Idle /\ \E t \in Searches, raised \in BOOLEAN :
                  \E ce_scores \in ScoreLists(Len(t.candidates)) :
                      SearchRerank(t, raised, ce_scores)

SpecSearch == Init /\ [][NextSearch]_vars

\* Failing ingests: uploads one at a time, each of which may fail at the
\* embedding, at the dense add or at any of its BM25 adds, or be cancelled at
\* its await.
NextFault ==
    \/ Respond
    \/ Idle /\ Quiet /\ \E s \in SubjectIds, c \in SearchContents : Upload(s, c)
    \/ Idle /\ \E t \in Ingests : AddChunks(t)
    \/ Idle /\ \E t \in Ingests : EmbedRaises(t)
    \/ Idle /\ \E t \in Ingests : DenseAddRaises(t)
    \/ Idle /\ \E t \in Ingests, k \in 1..MaxRecords : Bm25AddRaises(t, k)
    \/ Idle /\ \E t \in Ingests : IngestCancelled(t)
    \/ Idle /\ Quiet /\ \E d \in DocumentIds : DeleteDocument(d)

SpecFault == Init /\ [][NextFault]_vars

\* Fusion on its own: search from its two ranked lists to its matches when it
\* does not rerank, for a dense list of n ids (n = candidate_count) and a BM25
\* list of m <= n ids that may rank two of them the other way round (when
\* m = n) and may hold an id the dense list lacks.
ListShapes ==
    {p \in [n : 1..PoolCap, m : 0..PoolCap, a : 1..PoolCap, b : 1..PoolCap,
            shift : {0, 1}] :
        /\ p.m <= p.n
        /\ p.a <= p.b
        /\ p.b <= Max(p.m, 1)
        /\ p.a < p.b => p.m = p.n}

RankedLists ==
    {[vector_ids |-> [i \in 1..p.n |-> i],
      bm25_ids |-> [i \in 1..p.m |->
                      p.shift + (IF i = p.a THEN p.b ELSE IF i = p.b THEN p.a ELSE i)]] :
        p \in ListShapes}

FuseRanked(vector_ids, bm25_ids) ==
    LET ids == Range(vector_ids) \cup Range(bm25_ids)
        docs == [id \in ids |-> [text |-> <<>>, metadata |-> NoMetadata, vector_score |-> 0]]
        fused_ranked == SortByScoreDesc(ReciprocalRankFusion(vector_ids, bm25_ids))
        candidates == Candidates(fused_ranked, docs, Len(vector_ids))
    IN /\ last = NoLast
       /\ last' = [op |-> "fusion", subject_id |-> <<>>, document_id |-> <<>>,
                   out |-> [vector_ids |-> vector_ids, bm25_ids |-> bm25_ids,
                            pool |-> candidates, matches |-> Matches(candidates)]]
       /\ UNCHANGED <<dense, collections_cache, bm25_indices, cross_encoder, tasks, rt>>

NextFusion == \E lists \in RankedLists : FuseRanked(lists.vector_ids, lists.bm25_ids)

SpecFusion == Init /\ [][NextFusion]_vars

\* One BM25 index on its own, that of subject a-b, under any calls of
\* add_document, remove_document and search: ids are the chunk ids of one
\* document, and an id may be added again, with the same or another text.
IndexSubject == SubjHyphen

IndexIds == {ChunkId(DocumentId(IndexSubject, "h1"), i) : i \in 0..2}

IndexTexts == {<<"ssrf", "attack">>, <<"ssrf", "request", "ssrf">>, <<"the", "x">>}

IndexQueries == {<<"ssrf">>, <<"request", "the", "ssrf">>}

\* BM25Index.add_document(doc_id, text, metadata)
IndexAdd(doc_id, text) ==
    LET b == Bm25Of(IndexSubject)
    IN /\ b.doc_count < MaxDocCount
       /\ bm25_indices' = Put(bm25_indices, IndexSubject,
                              AddDocument(b, doc_id, text, NoMetadata))
       /\ last' = [op |-> "bm25_add", subject_id |-> IndexSubject, document_id |-> doc_id,
                   out |-> [present |-> doc_id \in BM25Ids(b), text |-> text]]
       /\ UNCHANGED <<dense, collections_cache, cross_encoder, tasks, rt>>

\* BM25Index.remove_document(doc_id)
IndexRemove(doc_id) ==
    LET b == Bm25Of(IndexSubject)
    IN /\ bm25_indices' = Put(bm25_indices, IndexSubject, RemoveDocument(b, doc_id))
       /\ last' = [op |-> "bm25_remove", subject_id |-> IndexSubject,
                   document_id |-> doc_id,
                   out |-> [present |-> doc_id \in BM25Ids(b),
                            text |-> IF doc_id \in BM25Ids(b) THEN b.doc_texts[doc_id]
                                     ELSE <<>>]]
       /\ UNCHANGED <<dense, collections_cache, cross_encoder, tasks, rt>>

\* BM25Index.search(query, limit): its result, or the exception it raises.
IndexSearch(query, limit) ==
    LET b == Bm25Of(IndexSubject)
    IN /\ last' = IF SearchRaises(b, query)
                  THEN [op |-> "bm25_search_failed", subject_id |-> IndexSubject,
                        document_id |-> <<>>, out |-> 0]
                  ELSE [op |-> "bm25_search", subject_id |-> IndexSubject,
                        document_id |-> <<>>,
                        out |-> [results |-> BM25Search(b, query, limit),
                                 limit |-> limit]]
       /\ UNCHANGED <<dense, collections_cache, bm25_indices, cross_encoder, tasks, rt>>

NextIndex ==
    \/ Respond
    \/ Idle /\ \E doc_id \in IndexIds, text \in IndexTexts : IndexAdd(doc_id, text)
    \/ Idle /\ \E doc_id \in IndexIds : IndexRemove(doc_id)
    \/ Idle /\ \E query \in IndexQueries, limit \in 1..MaxLimit : IndexSearch(query, limit)

SpecIndex == Init /\ [][NextIndex]_vars

\* Query expansion on its own: QueryExpander.expand for queries of up to
\* MaxQueryLen words, some with capitals, and for no subject, a subject with
\* context terms ('ctf') and one without.
QueryWords == {"ssrf", "SSRF", "sqli", "sql", "injection", "Flag", "what"}

ExpandQueries == UNION {[1..n -> QueryWords] : n \in 0..MaxQueryLen}

ExpandSubjects == {<<>>, <<"c", "t", "f">>, SubjHyphen}

\* QueryExpander.expand(query, subject_id)
ExpandQuery(query, subject_id) ==
    /\ \E e \in Expand(query, subject_id) :
          last' = [op |-> "expand", subject_id |-> subject_id, document_id |-> <<>>,
                   out |-> [query |-> query, expanded_query |-> e.query,
                            expanded |-> e.expanded]]
    /\ UNCHANGED <<dense, collections_cache, bm25_indices, cross_encoder, tasks, rt>>

NextExpand ==
    \/ Respond
    \/ Idle /\ \E query \in ExpandQueries, subject_id \in ExpandSubjects :
                  ExpandQuery(query, subject_id)

SpecExpand == Init /\ [][NextExpand]_vars

\* Writers only: process_document and delete_document calls, up to MaxTasks of
\* them in flight, switching at the embedding await of add_chunks; no lock is
\* taken anywhere.
NextWriters ==
    \/ Respond
    \/ Idle /\ \E s \in SubjectIds, c \in SearchContents : Upload(s, c)
    \/ Idle /\ \E t \in Ingests : AddChunks(t)
    \/ Idle /\ \E d \in {DocumentId(s, c) : s \in SubjectIds, c \in SearchContents} :
                  DeleteDocument(d)

SpecWriters == Init /\ [][NextWriters]_vars

\* Chunking on its own: chunk_text on pages made of up to MaxBlocks blocks,
\* joined by a newline or by a blank line, for both chunkers.
\* Two level-2 markdown headers and a level-3 one.
HeaderOverview ==
    <<"#", "#", " ", "O", "v", "e", "r", "v", "i", "e", "w">>

HeaderDetails ==
    <<"#", "#", " ", "D", "e", "t", "a", "i", "l", "s">>

HeaderNotes ==
    <<"#", "#", "#", " ", "N", "o", "t", "e", "s">>

\* Paragraphs shorter than min_chunk_size.
ShortFoo ==
    <<"F", "o", "o", " ", "b", "a", "r", ".", " ", "B", "a", "z", " ", "q",
      "u", "x", ".">>

ShortDetail ==
    <<"A", " ", "d", "e", "t", "a", "i", "l", " ", "s", "e", "n", "t", "e",
      "n", "c", "e", ".">>

\* Prose of exactly min_chunk_size characters, on one line, and prose of 100
\* characters on two lines.
ProseMin ==
    <<"T", "h", "e", " ", "s", "e", "r", "v", "e", "r", " ", "f", "e", "t",
      "c", "h", "e", "s", " ", "a", "n", "y", " ", "a", "d", "d", "r", "e",
      "s", "s", " ", "i", "t", "s", " ", "c", "l", "i", "e", "n", "t", " ",
      "h", "a", "n", "d", "s", " ", "i", "t">>

ProseTwoLines ==
    <<"A", "n", " ", "a", "t", "t", "a", "c", "k", "e", "r", " ", "r", "e",
      "a", "c", "h", "e", "s", " ", "h", "o", "s", "t", "s", " ", "b", "e",
      "h", "i", "n", "d", " ", "t", "h", "e", " ", "f", "i", "r", "e", "w",
      "a", "l", "l", " ", "s", "o", ".", NL, "F", "i", "l", "t", "e", "r",
      " ", "e", "v", "e", "r", "y", " ", "o", "u", "t", "g", "o", "i", "n",
      "g", " ", "r", "e", "q", "u", "e", "s", "t", " ", "b", "y", " ", "a",
      "n", " ", "a", "l", "l", "o", "w", " ", "l", "i", "s", "t", " ", "o",
      "k", ".">>

\* Fenced code blocks of exactly 100 characters and of more than the small
\* chunk_size, the second with a blank line, a line that reads as a header and
\* one that reads as a table row between its fences.
CodeHundred ==
    <<BACKTICK, BACKTICK, BACKTICK, NL, "u", "r", "l", " ", "=", " ", "a",
      "r", "g", "s", ".", "g", "e", "t", "(", "t", "a", "r", "g", "e", "t",
      "s", ")", NL, NL, "b", "o", "d", "y", " ", "=", " ", "f", "e", "t",
      "c", "h", "(", "u", "r", "l", ",", " ", "t", "i", "m", "e", "o", "u",
      "t", ",", " ", "r", "e", "t", "r", "y", ")", NL, "r", "e", "t", "u",
      "r", "n", " ", "r", "e", "n", "d", "e", "r", "(", "b", "o", "d", "y",
      ",", " ", "u", "r", "l", ",", " ", "h", "e", "a", "d", "e", "r", "s",
      ")", NL, BACKTICK, BACKTICK, BACKTICK>>

CodeLong ==
    <<BACKTICK, BACKTICK, BACKTICK, "p", "y", "t", "h", "o", "n", NL, "#",
      " ", "f", "e", "t", "c", "h", " ", "a", " ", "p", "a", "g", "e", NL,
      "l", "i", "n", "k", " ", "=", " ", "a", "r", "g", "s", ".", "g", "e",
      "t", "(", "t", "a", "r", "g", "e", "t", ")", NL, NL, "|", " ", "a",
      " ", "|", " ", "b", " ", "|", " ", "c", " ", "|", NL, "b", "o", "d",
      "y", " ", "=", " ", "f", "e", "t", "c", "h", "(", "l", "i", "n", "k",
      ",", " ", "t", "i", "m", "e", "o", "u", "t", ",", " ", "r", "e", "t",
      "r", "i", "e", "s", ")", NL, "r", "e", "t", "u", "r", "n", " ", "r",
      "e", "n", "d", "e", "r", "(", "b", "o", "d", "y", ",", " ", "l", "i",
      "n", "k", ",", " ", "h", "e", "a", "d", "e", "r", "s", ",", " ", "s",
      "t", "a", "t", "u", "s", ")", NL, BACKTICK, BACKTICK, BACKTICK>>

\* Three rows of a table, min_chunk_size characters together.
TableRows ==
    <<"|", " ", "h", "o", "s", "t", " ", "|", " ", "p", "o", "r", "t", " ",
      "|", NL, "|", " ", "l", "o", "c", "a", "l", " ", "|", " ", "h", "t",
      "t", "p", " ", "|", NL, "|", " ", "p", "r", "o", "x", "y", " ", "|",
      " ", "h", "t", "t", "p", "s", " ", "|">>

Blocks ==
    {HeaderOverview, HeaderDetails, HeaderNotes, ShortFoo, ShortDetail, ProseMin,
     ProseTwoLines, CodeHundred, CodeLong, TableRows}

Separators == {<<NL>>, <<NL, NL>>}

Chunkers == {DefaultChunker, SmallChunker}

\* The page of the specification's first scenario, as its blocks.
OverviewSample == <<HeaderOverview, ShortFoo, HeaderDetails, ShortDetail>>

PageBlocks == UNION {[1..n -> Blocks] : n \in 1..MaxBlocks} \cup {OverviewSample}

\* sep.join(blocks)
RECURSIVE JoinWith(_, _)
JoinWith(blocks, sep) ==
    IF blocks = <<>> THEN <<>>
    ELSE IF Len(blocks) = 1 THEN blocks[1]
    ELSE blocks[1] \o sep \o JoinWith(Tail(blocks), sep)

\* PDFProcessor.process: self.chunker.chunk_text(page_text, page_num, filename)
\* for one page.
ChunkPage(cfg, blocks, sep) ==
    LET text == JoinWith(blocks, sep)
    IN /\ last' = [op |-> "chunk", subject_id |-> <<>>, document_id |-> <<>>,
                   out |-> [chunker |-> cfg, blocks |-> blocks, text |-> text,
                            chunks |-> ChunkText(cfg, text)]]
       /\ UNCHANGED <<dense, collections_cache, bm25_indices, cross_encoder, tasks, rt>>

NextChunk ==
    \/ Respond
    \/ Idle /\ \E cfg \in Chunkers, sep \in Separators, blocks \in PageBlocks :
                  ChunkPage(cfg, blocks, sep)

SpecChunk == Init /\ [][NextChunk]_vars

\* Ingest of whole documents into subject a-b, one call at a time and up to
\* MaxDocuments documents: process_document from the extracted pages to both
\* indices.  A file is the sequence of its pages'
\* texts; the texts hold no stop word other than "the", no digit and no
\* underscore.

\* A page of two sections, a page of one paragraph, a page under 30
\* characters (no chunk) and a blank page (no entry in pages).
PageTwoSections ==
    <<"#", "#", " ", "O", "v", "e", "r", "v", "i", "e", "w", NL, "T", "h",
      "e", " ", "s", "s", "r", "f", " ", "a", "t", "t", "a", "c", "k", " ",
      "f", "o", "r", "g", "e", "s", " ", "t", "h", "e", " ", "r", "e", "q",
      "u", "e", "s", "t", " ", "t", "h", "e", " ", "s", "e", "r", "v", "e",
      "r", " ", "s", "e", "n", "d", "s", ".", NL, "#", "#", " ", "D", "e",
      "t", "a", "i", "l", "s", NL, "T", "h", "e", " ", "s", "q", "l", "i",
      " ", "a", "t", "t", "a", "c", "k", " ", "i", "n", "j", "e", "c", "t",
      "s", " ", "t", "h", "e", " ", "q", "u", "e", "r", "y", " ", "t", "h",
      "e", " ", "s", "e", "r", "v", "e", "r", " ", "r", "u", "n", "s", ".">>

PageOneSection ==
    <<"T", "h", "e", " ", "r", "e", "q", "u", "e", "s", "t", " ", "f", "o",
      "r", "g", "e", "r", "y", " ", "r", "e", "a", "c", "h", "e", "s", " ",
      "h", "o", "s", "t", "s", " ", "b", "e", "h", "i", "n", "d", " ", "t",
      "h", "e", " ", "f", "i", "r", "e", "w", "a", "l", "l", ".">>

PageShort ==
    <<"F", "o", "o", " ", "b", "a", "r", ".">>

PageBlank == <<>>

PageTexts == {PageTwoSections, PageOneSection, PageShort, PageBlank}

Files == UNION {[1..n -> PageTexts] : n \in 1..MaxPages}

\* PDFProcessor.extract_text: pages[page_num + 1] = text.strip() for the pages
\* with text, in page order.
ExtractText(file) ==
    SelectSeq([p \in 1..Len(file) |-> [page |-> p, text |-> Strip(file[p])]],
              LAMBDA e : e.text # <<>>)

\* chunk_text of the modelled pages under the server's chunker, computed once.
ChunkedPages == [text \in PageTexts |-> ChunkText(DefaultChunker, text)]

\* self.chunker.chunk_text(page_text, page_num, filename)
PageChunks(cfg, text) ==
    IF cfg = DefaultChunker /\ text \in PageTexts THEN ChunkedPages[text]
    ELSE ChunkText(cfg, text)

\* The chunks of one page with their page number.
OnPage(chunks, page) == [i \in 1..Len(chunks) |-> [page |-> page] @@ chunks[i]]

\* A process that puts the chunks of a later page first: not what process does.
RECURSIVE ProcessLastPageFirst(_, _)
ProcessLastPageFirst(cfg, pages) ==
    IF pages = <<>> THEN <<>>
    ELSE ProcessLastPageFirst(cfg, Tail(pages))
         \o OnPage(PageChunks(cfg, Head(pages).text), Head(pages).page)

\* PDFProcessor.process(...).chunks: for page_num, page_text in pages.items():
\* all_chunks.extend(chunk_text(page_text, page_num, filename))
RECURSIVE Process(_, _)
Process(cfg, pages) ==
    IF pages = <<>> THEN <<>>
    ELSE OnPage(PageChunks(cfg, Head(pages).text), Head(pages).page)
         \o Process(cfg, Tail(pages))

\* ''.join(chars)
RECURSIVE WordOf(_)
WordOf(chars) == IF chars = <<>> THEN "" ELSE Head(chars) \o WordOf(Tail(chars))

Alnum == Range(LOWER)

\* re.findall(r'\b[a-zA-Z0-9][\w\-\.]*[a-zA-Z0-9]\b|\b\w\b', s) from place i of
\* a lowercased s: a word starts at an alphanumeric character that follows no
\* word character, and runs to the last alphanumeric character of the greedy
\* run of [\w\-\.] that no word character follows.
RECURSIVE FindTokens(_, _)
FindTokens(s, i) ==
    IF i > Len(s) THEN <<>>
    ELSE LET run == SkipClass(s, i, WordChars \cup {"-", "."}) - 1
             ends == {k \in i..run : /\ s[k] \in Alnum
                                     /\ (k = Len(s) \/ s[k + 1] \notin WordChars)}
             end == CHOOSE k \in ends : \A m \in ends : m <= k
         IN IF s[i] \notin Alnum \/ (i > 1 /\ s[i - 1] \in WordChars) \/ ends = {}
            THEN FindTokens(s, i + 1)
            ELSE <<WordOf(SubSeq(s, i, end))>> \o FindTokens(s, end + 1)

\* A character text given as its words, the form BM25Index._tokenize filters:
\* the matches of its pattern in text.lower().
WordsOf(text) == FindTokens(LowerText(text), 1)

\* add_chunks: ids counted from 1, not what the list comprehension gives.
IdsFromOne(document_id, chunks) ==
    [i \in 1..Len(chunks) |-> ChunkId(document_id, i)]

\* add_chunks: ids = [f"{document_id}_{i}" for i in range(len(chunks))]
Ids(document_id, chunks) ==
    [i \in 1..Len(chunks) |-> ChunkId(document_id, i - 1)]

\* add_chunks: texts_for_storage
TextsForStorage(chunks) == [i \in 1..Len(chunks) |-> WordsOf(chunks[i].text)]

\* add_chunks: metadatas (the filename is the same for every chunk and left out)
Metadatas(document_id, chunks) ==
    [i \in 1..Len(chunks) |->
        [document_id |-> document_id,
         page |-> chunks[i].page,
         header |-> chunks[i].header,
         parent_header |-> chunks[i].parent_header,
         chunk_type |-> chunks[i].chunk_type,
         importance |-> chunks[i].importance_score,
         sentence_count |-> chunks[i].sentence_count]]

\* zip(ids, texts, metadatas)
Zip(ids, texts, metadatas) ==
    [i \in 1..Len(ids) |-> [id |-> ids[i], text |-> texts[i], metadata |-> metadatas[i]]]

\* The documents that have a record in a dense collection.
Ingested ==
    UNION {{dense[c][i].metadata.document_id : i \in 1..Len(dense[c])} : c \in DOMAIN dense}

\* process_document, its await of the embedding passed with nothing else
\* running: the pages are extracted and chunked, the chunks given their ids,
\* collection.add is called with the three lists and bm25.add_document with
\* every (id, text, metadata) of their zip.  What both calls received is kept.
ProcessDocument(subject_id, file) ==
    \E chunks \in {Process(DefaultChunker, ExtractText(file))} :
    LET document_id == DocumentId(subject_id, file)
        col == CollectionName(subject_id)
        ids == Ids(document_id, chunks)
        texts_for_storage == TextsForStorage(chunks)
        metadatas == Metadatas(document_id, chunks)
        store == IF col \in collections_cache THEN dense ELSE GetOrCreate(dense, col)
        b == Bm25Of(subject_id)
        added == Zip(ids, texts_for_storage, metadatas)
    IN /\ SubjectIdValid(subject_id)
       /\ Cardinality(Ingested \cup {document_id}) <= MaxDocuments
       /\ Len(DenseOf(subject_id)) + Len(chunks) <= MaxRecords
       /\ b.doc_count + Len(chunks) <= MaxDocCount
       /\ IF chunks = <<>>
          THEN UNCHANGED <<dense, collections_cache, bm25_indices>>
          ELSE /\ dense' = [store EXCEPT ![col] = CollectionAdd(@, added)]
               /\ collections_cache' = collections_cache \cup {col}
               /\ bm25_indices' = Put(bm25_indices, subject_id, AddAll(b, added))
       /\ last' = [op |-> "process", subject_id |-> subject_id,
                   document_id |-> document_id,
                   out |-> [chunks |-> chunks,
                            pages |-> ExtractText(file),
                            collection_add |-> [ids |-> ids,
                                                documents |-> texts_for_storage,
                                                metadatas |-> metadatas],
                            add_document |-> added,
                            fresh |-> Range(ids) \cap
                                        (DenseIds(subject_id) \cup Bm25IdsOf(subject_id)) = {}]]
       /\ rt' = NoRt
       /\ UNCHANGED <<cross_encoder, tasks>>

NextProcess ==
    \/ Respond
    \/ Idle /\ \E file \in Files : ProcessDocument(IndexSubject, file)

SpecProcess == Init /\ [][NextProcess]_vars

\* _compute_importance on its own, for every combination of its five
\* conditions: a text is a first line (a definition line or a plain one), a
\* marker word or none, and a tail that takes it over 100 characters or none.
DefinitionLine ==
    <<"P", "r", "o", "x", "y", ":", " ", "a", " ", "s", "e", "r", "v", "e",
      "r", " ", "t", "h", "a", "t", " ", "f", "e", "t", "c", "h", "e", "s",
      " ", "a", "n", "y", " ", "a", "d", "d", "r", "e", "s", "s">>

PlainLine ==
    <<"A", " ", "s", "e", "r", "v", "e", "r", " ", "t", "h", "a", "t", " ",
      "f", "e", "t", "c", "h", "e", "s", " ", "a", "n", "y", " ", "a", "d",
      "d", "r", "e", "s", "s">>

FirstLines == {DefinitionLine, PlainLine}

\* Words that hold a technical marker, in lower and upper case, and none.
MarkerWords ==
    {<<>>,
     <<" ", "n", "o", "t", "e">>,
     <<" ", "E", "x", "a", "m", "p", "l", "e">>,
     <<" ", "f", "u", "n", "c", "t", "i", "o", "n", "s">>,
     <<" ", "W", "A", "R", "N", "I", "N", "G">>}

LongTail ==
    <<NL, "I", "t", " ", "r", "e", "a", "c", "h", "e", "s", " ", "h", "o",
      "s", "t", "s", " ", "b", "e", "h", "i", "n", "d", " ", "t", "h", "e",
      " ", "f", "i", "r", "e", "w", "a", "l", "l", " ", "w", "h", "e", "n",
      " ", "t", "h", "e", " ", "f", "i", "l", "t", "e", "r", " ", "c", "h",
      "e", "c", "k", "s", " ", "f", "e", "w", " ", "o", "u", "t", "g", "o",
      "i", "n", "g", " ", "r", "e", "q", "u", "e", "s", "t", "s", ".">>

Tails == {<<>>, LongTail}

ChunkTypes == {"paragraph", "code", "table"}

\* self._compute_importance(chunk_text, chunk_type, header is not None)
Importance(first, marker, tail, chunk_type, has_header) ==
    LET chunk_text == first \o marker \o tail
    IN /\ last' = [op |-> "importance", subject_id |-> <<>>, document_id |-> <<>>,
                   out |-> [first |-> first, marker |-> marker, tail |-> tail,
                            chunk_text |-> chunk_text, chunk_type |-> chunk_type,
                            has_header |-> has_header,
                            importance_score |->
                                ComputeImportance(chunk_text, chunk_type, has_header)]]
       /\ UNCHANGED <<dense, collections_cache, bm25_indices, cross_encoder, tasks, rt>>

NextImportance ==
    \/ Respond
    \/ Idle /\ \E first \in FirstLines, marker \in MarkerWords, tail \in Tails,
                  chunk_type \in ChunkTypes, has_header \in BOOLEAN :
                  Importance(first, marker, tail, chunk_type, has_header)

SpecImportance == Init /\ [][NextImportance]_vars

\* ---------------------------------------------------------------- properties

\* The chunk ids of document_id among the entries of a BM25 index.
Bm25IdsOfDocument(b, document_id) ==
    {id \in BM25Ids(b) : b.doc_metadata[id].document_id = document_id}

\* The chunk ids process_document gives a document.
ChunkIdsOf(document_id) == RecordIds(Records(document_id, ChunksOf(document_id[2])))

\* Every document is in both indices of a subject with all its chunks, or in
\* neither with any.
AllOrNone(subject_id) ==
    \A d \in DocumentIds :
        \/ /\ ChunkIdsOf(d) \subseteq DenseIds(subject_id)
           /\ ChunkIdsOf(d) \subseteq Bm25IdsOf(subject_id)
        \/ ChunkIdsOf(d) \cap (DenseIds(subject_id) \cup Bm25IdsOf(subject_id)) = {}

\* C1: whenever no ingest is under way (every add_chunks and delete_document
\* called so far has completed), each subject's BM25 index holds exactly the
\* chunk ids of the subject's dense collection.
C1_CrossIndex ==
    Ingests = {} => \A s \in SubjectIds : Bm25IdsOf(s) = DenseIds(s)

\* C2: when delete_document(d) has returned, no dense collection of the store
\* and no BM25 index holds a chunk whose metadata document_id is d.
C2_DeleteEverywhere ==
    last.op = "delete" =>
        /\ \A c \in DOMAIN dense : IdsOfDocument(dense[c], last.document_id) = {}
        /\ \A s \in DOMAIN bm25_indices :
              Bm25IdsOfDocument(bm25_indices[s], last.document_id) = {}

\* C3: when delete_document(d) returns right after the ingest of d, none of
\* whose chunk ids was indexed before, the subject's dense ids, BM25 ids and
\* bm25.doc_count are what they were before the ingest.
C3_IngestDeleteRestores ==
    (last.op = "delete" /\ last.out.phase = "ingested" /\ last.out.fresh) =>
        /\ DenseIds(last.out.subject_id) = last.out.dense_ids
        /\ Bm25IdsOf(last.out.subject_id) = last.out.bm25_ids
        /\ Bm25Of(last.out.subject_id).doc_count = last.out.doc_count

\* C4: a search suspended at its embedding resumes into the dense query and the
\* BM25 search, run without an await between them; in the state they read,
\* every document has all its chunks in both indices of the subject or none in
\* either.
C4_SearchSeesWholeDocuments ==
    \A t \in Searches : t.pc = "embed" => AllOrNone(t.subject_id)

\* C5: when add_chunks has failed (at the embedding, the dense add or a BM25
\* add), both indices of the subject hold exactly the ids they held before the
\* call.
C5_FailedIngestLeavesNothing ==
    last.op = "ingest_failed" =>
        /\ DenseIds(last.subject_id) = last.out.dense_ids
        /\ Bm25IdsOf(last.subject_id) = last.out.bm25_ids

\* C6: when startup has rebuilt the BM25 indices, for every subject id whose
\* collection is non-empty the index _get_bm25 gives for that id holds exactly
\* the ids of the collection.
C6_RebuildMatchesDense ==
    last.op = "restart" =>
        \A s \in SubjectIds : DenseOf(s) # <<>> => Bm25IdsOf(s) = DenseIds(s)

\* C7: for distinct valid subject ids, list_documents and search of one return
\* only documents ingested under it, and an add_chunks on one leaves the dense
\* collection and the BM25 index of the other as they were.
C7_Step ==
    /\ last'.op = "list" =>
          \A e \in last'.out : e.document_id[1] = last'.subject_id
    /\ last'.op = "search" =>
          \A i \in 1..Len(last'.out.matches) :
              last'.out.matches[i].metadata.document_id[1] = last'.subject_id
    /\ (last'.op = "ingest" /\ last'.out > 0) =>
          \A s \in SubjectIds \ {last'.subject_id} :
              (SubjectIdValid(s) /\ SubjectIdValid(last'.subject_id)) =>
                  /\ DenseOf(s)' = DenseOf(s)
                  /\ Bm25Of(s)' = Bm25Of(s)

C7_SubjectIsolation == [][C7_Step]_vars

\* C8: in every result of search the returned scores do not increase from one
\* match to the next.
C8_ScoresNonIncreasing ==
    last.op = "search" =>
        \A i \in 1..(Len(last.out.matches) - 1) :
            last.out.matches[i].score >= last.out.matches[i + 1].score

\* C9: search returns at most limit matches, whether it reranked, did not
\* rerank, or the reranker failed.
C9_AtMostLimit ==
    last.op = "search" => Len(last.out.matches) <= last.out.limit

\* A search that had more candidates than limit went through _rerank and
\* returned limit matches.
C9_Witness ==
    /\ last.op = "search"
    /\ last.out.search_method = "hybrid+rerank"
    /\ last.out.candidates > last.out.limit
    /\ Len(last.out.matches) = last.out.limit

\* C10 as stated: every vector_score search returns lies in [0, 1].
C10_UnitRange ==
    last.op = "search" =>
        \A i \in 1..Len(last.out.matches) :
            /\ last.out.matches[i].vector_score >= 0
            /\ last.out.matches[i].vector_score <= 10000

\* C10: every vector_score search returns lies in [-1, 1]; that of a match the
\* dense store reported at distance d is not negative when d <= 1 and is
\* negative when d exceeds 1 by more than the rounding.
C10_SignedRange ==
    last.op = "search" =>
        \A i \in 1..Len(last.out.matches) :
            LET m == last.out.matches[i]
                reported == m.id \in DOMAIN last.out.distances
            IN /\ m.vector_score >= -10000
               /\ m.vector_score <= 10000
               /\ (reported /\ last.out.distances[m.id] <= 100000) => m.vector_score >= 0
               /\ (reported /\ last.out.distances[m.id] > 100005) => m.vector_score < 0

\* A search returned a match the dense store reported at a distance above 1.
C10_Witness ==
    /\ last.op = "search"
    /\ \E i \in 1..Len(last.out.matches) :
          /\ last.out.matches[i].id \in DOMAIN last.out.distances
          /\ last.out.distances[last.out.matches[i].id] > 100000
          /\ last.out.matches[i].vector_score < 0

\* The candidates of a search result that are not among its matches.
Unreturned(out) ==
    {i \in 1..Len(out.pool) :
        \A j \in 1..Len(out.matches) : out.matches[j].id # out.pool[i].id}

\* The candidate a match was made from.
PoolOf(out, j) ==
    out.pool[CHOOSE i \in 1..Len(out.pool) : out.pool[i].id = out.matches[j].id]

\* C11: when the cross-encoder raised, search returns the limit candidates with
\* the highest score = rrf x importance, in descending order of that score.
C11_FallbackByScore ==
    (last.op = "search" /\ last.out.rerank = "failed") =>
        /\ Len(last.out.matches) = Min(last.out.limit, Len(last.out.pool))
        /\ \A j \in 1..(Len(last.out.matches) - 1) :
              PoolOf(last.out, j).score >= PoolOf(last.out, j + 1).score
        /\ \A i \in Unreturned(last.out), j \in 1..Len(last.out.matches) :
              last.out.pool[i].score <= PoolOf(last.out, j).score

\* The place in the candidate list of the candidate a match was made from.
PoolIndex(out, j) == CHOOSE i \in 1..Len(out.pool) : out.pool[i].id = out.matches[j].id

\* Every returned score is the cross-encoder's score of its candidate.
ScoresAreRerank(out) ==
    /\ Len(out.ce_scores) = Len(out.pool)
    /\ \A j \in 1..Len(out.matches) :
          out.matches[j].score = RoundDiv(out.ce_scores[PoolIndex(out, j)], 100)

\* Every returned score is its candidate's score = rrf x importance.
ScoresAreFused(out) ==
    \A j \in 1..Len(out.matches) :
        out.matches[j].score = RoundDiv(PoolOf(out, j).score, 100)

\* C12: a non-empty search reports "hybrid+rerank" exactly when the returned
\* scores are cross-encoder scores and "hybrid" exactly when they are the
\* rrf x importance scores, also when the reranking failed.
C12_MethodTellsScores ==
    (last.op = "search" /\ last.out.matches # <<>>) =>
        /\ last.out.search_method = "hybrid+rerank" <=> ScoresAreRerank(last.out)
        /\ last.out.search_method = "hybrid" <=> ScoresAreFused(last.out)

\* The cross-encoder's score of the candidate a match was made from.
CeScoreOf(out, j) == out.ce_scores[PoolIndex(out, j)]

\* C13: with use_reranking, a cross-encoder, more than one candidate and a
\* scoring that succeeds, search reports "hybrid+rerank" and returns the limit
\* candidates with the highest cross-encoder scores in descending order of
\* them; without use_reranking it reports "hybrid" and returns the first limit
\* candidates in fused order.
C13_RerankOrder ==
    (last.op = "search" /\ last.out.matches # <<>>) =>
        LET out == last.out
            n == Len(out.matches)
        IN /\ (out.use_reranking /\ cross_encoder /\ Len(out.pool) > 1
                  /\ out.rerank # "failed") =>
                 /\ out.search_method = "hybrid+rerank"
                 /\ out.rerank = "done"
                 /\ n = Min(out.limit, Len(out.pool))
                 /\ \A j \in 1..n, k \in 1..n : j # k => out.matches[j].id # out.matches[k].id
                 /\ \A j \in 1..(n - 1) : CeScoreOf(out, j) >= CeScoreOf(out, j + 1)
                 /\ \A i \in Unreturned(out), j \in 1..n :
                       out.ce_scores[i] <= CeScoreOf(out, j)
           /\ ~out.use_reranking =>
                 /\ out.search_method = "hybrid"
                 /\ n = Min(out.limit, Len(out.pool))
                 /\ \A j \in 1..n : out.matches[j].id = out.pool[j].id
                 /\ \A i \in 1..(Len(out.pool) - 1) :
                       out.pool[i].rrf_score >= out.pool[i + 1].rrf_score

\* A reranked search returned fewer matches than it had candidates, the first
\* of them a candidate that was not first in fused order.
C13_Witness ==
    /\ last.op = "search"
    /\ last.out.rerank = "done"
    /\ last.out.use_reranking
    /\ Len(last.out.matches) < Len(last.out.pool)
    /\ last.out.matches[1].id # last.out.pool[1].id
    /\ CeScoreOf(last.out, 1) > last.out.ce_scores[1]

\* The 1-indexed rank of id in a ranked list, 0 when the list lacks it.
RankOrZero(ids, id) == IF id \in Range(ids) THEN RankIn(ids, id) ELSE 0

\* rrf_score (1e-6) is 0.6 / (60 + v) + 0.4 / (60 + b) to within one unit, a
\* rank of 0 contributing nothing: compared after multiplying out.
IsFusedScore(rrf_score, v, b) ==
    LET dv == IF v = 0 THEN 1 ELSE 60 + v
        db == IF b = 0 THEN 1 ELSE 60 + b
        exact == (IF v = 0 THEN 0 ELSE 600000 * db) + (IF b = 0 THEN 0 ELSE 400000 * dv)
        diff == rrf_score * dv * db - exact
    IN diff <= dv * db /\ -diff <= dv * db

\* C14: every candidate's fused score is 0.6/(60 + dense rank) + 0.4/(60 + BM25
\* rank), a list that lacks it contributing nothing; and of two candidates at
\* ranks (a, b) and (b, a) with a < b, the first has the strictly higher fused
\* score and comes first.
C14_FusedScore ==
    last.op = "fusion" =>
        LET pool == last.out.pool
            v(i) == RankOrZero(last.out.vector_ids, pool[i].id)
            b(i) == RankOrZero(last.out.bm25_ids, pool[i].id)
        IN /\ \A i \in 1..Len(pool) : IsFusedScore(pool[i].rrf_score, v(i), b(i))
           /\ \A i \in 1..Len(pool), j \in 1..Len(pool) :
                 (v(i) > 0 /\ v(i) < b(i) /\ v(j) = b(i) /\ b(j) = v(i)) =>
                     /\ pool[i].rrf_score > pool[j].rrf_score
                     /\ i < j

\* The case of the specification's example: candidates at ranks (1, 5) and
\* (5, 1) of equal importance, the first of them ahead.
C14_Witness ==
    /\ last.op = "fusion"
    /\ \E i \in 1..Len(last.out.pool), j \in 1..Len(last.out.pool) :
          /\ RankOrZero(last.out.vector_ids, last.out.pool[i].id) = 1
          /\ RankOrZero(last.out.bm25_ids, last.out.pool[i].id) = 5
          /\ RankOrZero(last.out.vector_ids, last.out.pool[j].id) = 5
          /\ RankOrZero(last.out.bm25_ids, last.out.pool[j].id) = 1
          /\ last.out.pool[i].importance = last.out.pool[j].importance
          /\ i < j

\* C15: every returned rrf_score is above 0 and below (0.6 + 0.4) / RRF_K.
C15_RrfRange ==
    last.op = "fusion" =>
        \A i \in 1..Len(last.out.matches) :
            /\ last.out.matches[i].rrf_score > 0
            /\ last.out.matches[i].rrf_score * RRF_K < 1000000

\* A full pool: one match first in both lists, one last in the dense list only.
C15_Witness ==
    /\ last.op = "fusion"
    /\ Len(last.out.vector_ids) = PoolCap
    /\ \E i \in 1..Len(last.out.matches), j \in 1..Len(last.out.matches) :
          /\ last.out.matches[i].rrf_score = 16393
          /\ last.out.matches[j].rrf_score = 7500

\* C16: in every BM25 index, doc_count is the number of entries of doc_texts.
C16_DocCount ==
    \A s \in DOMAIN bm25_indices :
        bm25_indices[s].doc_count = Cardinality(DOMAIN bm25_indices[s].doc_texts)

\* The terms an index may know.
IndexTerms(b) ==
    DOMAIN b.inverted_index \cup DOMAIN b.doc_freqs
        \cup UNION {Range(Tokenize(text)) : text \in IndexTexts}

\* The indexed documents whose token list contains term.
DocsWith(b, term) == {d \in BM25Ids(b) : term \in Range(Tokenize(b.doc_texts[d]))}

\* For every term, doc_freqs (0 when absent) counts the indexed documents whose
\* tokens contain it and inverted_index maps exactly those documents to their
\* term frequency.
FreqsExact(b) ==
    \A term \in IndexTerms(b) :
        LET postings == IF term \in DOMAIN b.inverted_index
                        THEN b.inverted_index[term] ELSE <<>>
        IN /\ (IF term \in DOMAIN b.doc_freqs THEN b.doc_freqs[term] ELSE 0)
                 = Cardinality(DocsWith(b, term))
           /\ PostingIds(postings) = DocsWith(b, term)
           /\ Len(postings) = Cardinality(DocsWith(b, term))
           /\ \A i \in 1..Len(postings) :
                 postings[i].tf = Count(Tokenize(b.doc_texts[postings[i].id]), term)

\* C17: a new index has exact document frequencies and postings, and every
\* add_document of an id the index does not hold, every remove_document and
\* every search keeps them exact; so they are exact after any sequence of calls
\* whose adds all use absent ids.
C17_Step ==
    (FreqsExact(Bm25Of(IndexSubject)) /\ ~(last'.op = "bm25_add" /\ last'.out.present))
        => FreqsExact(Bm25Of(IndexSubject))'

C17_FreqsExact == FreqsExact(Bm25Of(IndexSubject)) /\ [][C17_Step]_vars

\* An add of an absent id returned, no id was ever added twice, and two
\* documents share a term that one of them holds twice.
C17_Witness ==
    /\ last.op = "bm25_add"
    /\ ~last.out.present
    /\ LET b == Bm25Of(IndexSubject)
       IN /\ b.doc_count = Cardinality(BM25Ids(b))
          /\ FreqsExact(b)
          /\ "ssrf" \in DOMAIN b.doc_freqs
          /\ b.doc_freqs["ssrf"] = 2
          /\ \E i \in 1..Len(b.inverted_index["ssrf"]) : b.inverted_index["ssrf"][i].tf = 2

\* C18: in every index, inverted_index and doc_freqs have the same keys, every
\* doc_freqs value is above 0 and every posting map is non-empty (so a term
\* whose last posting was removed is in neither map).
C18_MapsAgree ==
    \A s \in DOMAIN bm25_indices :
        LET b == bm25_indices[s]
        IN /\ DOMAIN b.inverted_index = DOMAIN b.doc_freqs
           /\ \A term \in DOMAIN b.doc_freqs : b.doc_freqs[term] > 0
           /\ \A term \in DOMAIN b.inverted_index : b.inverted_index[term] # <<>>

\* remove_document removed a document that held the last posting of one of its
\* terms, and other terms remain indexed.
C18_Witness ==
    /\ last.op = "bm25_remove"
    /\ last.out.present
    /\ LET b == Bm25Of(IndexSubject)
       IN /\ \E term \in Range(Tokenize(last.out.text)) :
                term \notin DOMAIN b.inverted_index /\ term \notin DOMAIN b.doc_freqs
          /\ DOMAIN b.inverted_index # {}

\* Chunk ids of one document compare as strings by their chunk number (one
\* digit each).
IdBefore(x, y) == x[1] = y[1] /\ x[2] < y[2]

\* C19: BM25 search returns at most limit pairs in descending score order, and
\* of two returned documents with equal scores the one with the smaller id
\* comes first.
C19_SearchOrder ==
    last.op = "bm25_search" =>
        LET results == last.out.results
        IN /\ Len(results) <= last.out.limit
           /\ \A i \in 1..(Len(results) - 1) :
                 /\ results[i].score >= results[i + 1].score
                 /\ results[i].score = results[i + 1].score =>
                       IdBefore(results[i].id, results[i + 1].id)

\* No collection the store has cached holds a chunk of the document: it was
\* never ingested, or delete_document has just run for it.
NoChunkCached(document_id) == FoundIds(document_id) = {}

AllChunkIds == UNION {ChunkIdsOf(d) : d \in DocumentIds}

\* C20: when delete_document(d) has returned, the collections it went through
\* hold no chunk of d; a delete_document(d) called in such a state (d deleted
\* just before, or never ingested) changes no dense collection and no BM25
\* index; and remove_document of an id an index does not hold changes no field
\* of the index.
C20_Step ==
    (last'.op = "delete" /\ NoChunkCached(last'.document_id)) =>
        /\ dense' = dense
        /\ bm25_indices' = bm25_indices

C20_DeleteIdempotent ==
    /\ [](last.op = "delete" => NoChunkCached(last.document_id))
    /\ [](\A s \in DOMAIN bm25_indices :
            \A id \in AllChunkIds \ BM25Ids(bm25_indices[s]) :
                RemoveDocument(bm25_indices[s], id) = bm25_indices[s])
    /\ [][C20_Step]_vars

\* delete_document returned having found no chunk of its document, in a store
\* with a cached non-empty collection and a non-empty BM25 index.
C20_Witness ==
    /\ last.op = "delete"
    /\ last.out.found = 0
    /\ \E c \in collections_cache : dense[c] # <<>>
    /\ \E s \in DOMAIN bm25_indices : BM25Ids(bm25_indices[s]) # {}

\* A step of a search: one starts, resumes, returns, fails or is cancelled.
SearchStep ==
    \/ last'.op \in {"search", "search_failed", "search_cancelled"}
    \/ \E t \in BagToSet(tasks) \cup BagToSet(tasks') :
          t.kind = "search" /\ CopiesIn(t, tasks') # CopiesIn(t, tasks)

\* C21: no step of a search (start, resumption, return, failure, cancellation
\* at an await) changes the records of a dense collection or a field of a BM25
\* index, nor the set of dense collections or of BM25 indices that exist, also
\* when the subject had never been used.
C21_Step ==
    SearchStep =>
        /\ DOMAIN dense' = DOMAIN dense
        /\ DOMAIN bm25_indices' = DOMAIN bm25_indices
        /\ \A c \in DOMAIN dense : dense'[c] = dense[c]
        /\ \A s \in DOMAIN bm25_indices : bm25_indices'[s] = bm25_indices[s]

C21_SearchMutatesNothing == [][C21_Step]_vars

\* The places in a collection of the records of one document.
PlacesOf(recs, document_id) ==
    {j \in 1..Len(recs) : recs[j].metadata.document_id = document_id}

\* C25: list_documents(s) returns exactly one entry for every document with a
\* chunk in the dense collection of s, with that document's number of chunks
\* and the set of their chunk types, and no entry for any other document (one
\* never ingested there, or deleted from the collection).
C25_ListExact ==
    last.op = "list" =>
        LET recs == DenseOf(last.subject_id)
        IN /\ \A e \in last.out : e.document_id \in DocumentIds
           /\ \A d \in DocumentIds :
                 LET entries == {e \in last.out : e.document_id = d}
                 IN IF PlacesOf(recs, d) = {} THEN entries = {}
                    ELSE /\ Cardinality(entries) = 1
                         /\ \A e \in entries :
                               /\ e.chunk_count = Cardinality(PlacesOf(recs, d))
                               /\ e.chunk_types =
                                     {recs[j].metadata.chunk_type : j \in PlacesOf(recs, d)}

\* list_documents returned one entry of two chunks with two chunk types, and
\* none for a document that was deleted from the collection (the BM25 index
\* of the subject still holds its chunks).
C25_Witness ==
    /\ last.op = "list"
    /\ \E e \in last.out : e.chunk_count = 2 /\ Cardinality(e.chunk_types) = 2
    /\ \E d \in DocumentIds :
          /\ Bm25IdsOfDocument(Bm25Of(last.subject_id), d) # {}
          /\ IdsOfDocument(DenseOf(last.subject_id), d) = {}
          /\ \A e \in last.out : e.document_id # d

\* C26: what expand returns starts with the query as given, word for word,
\* and so holds every token of the query; it is the query itself when no
\* expansion applies.
C26_ExpandMonotone ==
    last.op = "expand" =>
        /\ StartsWith(last.out.expanded_query, last.out.query)
        /\ Range(last.out.query) \subseteq Range(last.out.expanded_query)
        /\ ~last.out.expanded => last.out.expanded_query = last.out.query

\* expand appended terms to a query with a capital, for a subject with
\* context terms.
C26_Witness ==
    /\ last.op = "expand"
    /\ last.subject_id = <<"c", "t", "f">>
    /\ last.out.query = <<"what", "SSRF">>
    /\ Len(last.out.expanded_query) > Len(last.out.query) + 3
    /\ "challenge" \in Range(last.out.expanded_query)
    /\ "forgery" \in Range(last.out.expanded_query)

\* Every call so far was on subject_id: no other subject has an ingest in
\* flight, a BM25 index or a collection.
OnlySubject(subject_id) ==
    /\ \A t \in BagToSet(tasks) : t.subject_id = subject_id
    /\ DOMAIN bm25_indices \subseteq {subject_id}
    /\ DOMAIN dense \subseteq {CollectionName(subject_id)}

\* C27: with concurrent process_document and delete_document calls on one
\* subject, whenever a task is suspended or none is running the BM25 index of
\* the subject holds exactly the ids of its dense collection.
C27_WritersKeepIndicesEqual ==
    \A s \in SubjectIds : OnlySubject(s) => Bm25IdsOf(s) = DenseIds(s)

\* C29: for every valid subject id in use (the one _get_bm25 keyed an index
\* by), the subject id that delete_document and the startup rebuild derive
\* from its collection name is that subject id again, so the index they reach
\* is the index add_chunks and search use.
C29_NameRoundTrip ==
    \A s \in SubjectIds :
        (SubjectIdValid(s) /\ s \in DOMAIN bm25_indices) =>
            /\ SubjectOfCollection(CollectionName(s)) = s
            /\ Bm25Of(SubjectOfCollection(CollectionName(s))) = Bm25Of(s)

\* C30: in every reachable state the doc_count of a subject's BM25 index is
\* the number of records of the subject's dense collection, also after one
\* document was ingested twice into the subject and after it was deleted.
C30_DocCountIsDenseCount ==
    \A s \in SubjectIds :
        OnlySubject(s) => Bm25Of(s).doc_count = Len(DenseOf(s))

\* The page of the specification's first scenario: "## Overview", a blank
\* line, "Foo bar. Baz qux.", a blank line, "## Details", a blank line,
\* "A detail sentence.".
OverviewPage == JoinWith(OverviewSample, <<NL, NL>>)

\* C22: with the default min_chunk_size, chunk_text returns exactly two chunks
\* for that page: the first with header "Overview", type paragraph and a text
\* that starts with the line "## Overview" and a blank line, the second with
\* header "Details".
C22_TwoSections ==
    (/\ last.op = "chunk"
     /\ last.out.text = OverviewPage
     /\ last.out.chunker.min_chunk_size = DefaultChunker.min_chunk_size) =>
        LET chunks == last.out.chunks
        IN /\ Len(chunks) = 2
           /\ chunks[1].header = CleanHeader(HeaderOverview)
           /\ chunks[1].chunk_type = "paragraph"
           /\ StartsWith(chunks[1].text, HeaderOverview \o <<NL, NL>>)
           /\ chunks[2].header = CleanHeader(HeaderDetails)

ProseBlocks == {ProseMin, ProseTwoLines}

CodeBlocks == {CodeHundred, CodeLong}

\* A page of prose, a fenced code block and prose, each prose part of
\* min_chunk_size to chunk_size characters and the code block of 100 or more.
ProseCodeProse(out) ==
    /\ Len(out.blocks) = 3
    /\ out.blocks[1] \in ProseBlocks
    /\ out.blocks[2] \in CodeBlocks
    /\ out.blocks[3] \in ProseBlocks
    /\ \A i \in {1, 3} : /\ Len(out.blocks[i]) >= out.chunker.min_chunk_size
                         /\ Len(out.blocks[i]) <= out.chunker.chunk_size
    /\ Len(out.blocks[2]) >= 100

\* C23: for such a page chunk_text emits exactly three chunks, of types
\* paragraph, code, paragraph; the code chunk starts and ends with a fence and
\* holds every line of the block, also when the block is longer than
\* chunk_size; and its importance is at least 1.2.
C23_ProseCodeProse ==
    (last.op = "chunk" /\ ProseCodeProse(last.out)) =>
        LET chunks == last.out.chunks
            code == last.out.blocks[2]
        IN /\ Len(chunks) = 3
           /\ chunks[1].chunk_type = "paragraph"
           /\ chunks[2].chunk_type = "code"
           /\ chunks[3].chunk_type = "paragraph"
           /\ StartsWith(chunks[2].text, FENCE)
           /\ SubSeq(chunks[2].text, Len(chunks[2].text) - 2, Len(chunks[2].text)) = FENCE
           /\ Contains(chunks[2].text, code)
           /\ \A i \in 1..Len(SplitLines(code)) :
                 Contains(chunks[2].text, SplitLines(code)[i])
           /\ chunks[2].importance_score >= 120
           /\ \A i \in {1, 3} : ~Contains(chunks[i].text, FENCE)

\* Such a page, its code block longer than chunk_size, came out as three
\* chunks with the whole block in the second.
C23_Witness ==
    /\ last.op = "chunk"
    /\ ProseCodeProse(last.out)
    /\ Len(last.out.blocks[2]) > last.out.chunker.chunk_size
    /\ Len(last.out.chunks) = 3
    /\ last.out.chunks[2].chunk_type = "code"
    /\ last.out.chunks[2].text = last.out.blocks[2]

\* For every line of a page, in order: the line, whether chunk_text takes it
\* as a header line (a header outside a code block), and the nearest enclosing
\* section header when the line is read.
RECURSIVE Sections(_, _, _)
Sections(lines, header_stack, in_code) ==
    IF lines = <<>> THEN <<>>
    ELSE LET line == Head(lines)
             fence == IsCodeFence(line)
             hdr == IF fence \/ in_code \/ IsTableLine(line) THEN NoHeader
                    ELSE DetectHeader(line)
             stack == IF hdr.found THEN SetHeader(header_stack, hdr.text, hdr.level)
                      ELSE header_stack
         IN <<[line |-> Strip(line), is_header |-> hdr.found,
               header |-> GetCurrentHeader(header_stack)]>>
            \o Sections(Tail(lines), stack, in_code # fence)

\* The non-blank lines of a page that are not header lines, in input order.
ContentLines(text) ==
    SelectSeq(Sections(SplitLines(text), <<None, None, None>>, FALSE),
              LAMBDA l : l.line # <<>> /\ ~l.is_header)

\* The chunks (by place) whose text holds a line.
ChunksWith(chunks, line) == {k \in 1..Len(chunks) : Contains(chunks[k].text, line)}

\* C24: for a page of at least 30 trimmed characters, every non-blank line
\* that is not a header line is in the text of some emitted chunk, and the
\* chunks in order hold these lines in input order.
C24_NoContentLost ==
    (last.op = "chunk" /\ Len(Strip(last.out.text)) >= 30) =>
        LET lines == ContentLines(last.out.text)
            in(i) == ChunksWith(last.out.chunks, lines[i].line)
        IN /\ \A i \in 1..Len(lines) : in(i) # {}
           /\ \A i \in 1..Len(lines), j \in 1..Len(lines) :
                 i < j => \E k \in in(i), m \in in(j) : k <= m

\* C28: every content line held by an emitted chunk was read while the
\* chunk's header was the nearest enclosing section header (a line with that
\* text was), also after a flush was skipped for a buffer under min_chunk_size.
C28_HeaderOfContent ==
    last.op = "chunk" =>
        LET lines == ContentLines(last.out.text)
        IN \A k \in 1..Len(last.out.chunks), i \in 1..Len(lines) :
              Contains(last.out.chunks[k].text, lines[i].line) =>
                  \E j \in 1..Len(lines) :
                      /\ lines[j].line = lines[i].line
                      /\ lines[j].header = last.out.chunks[k].header

\* C31: in every state reached by add_document and remove_document calls, an
\* id added again with another text and then removed included, BM25 search
\* returns a result: it raises neither on a posting of a document missing
\* from doc_lengths nor on a division by avgdl = 0.
C31_SearchNeverRaises == last.op # "bm25_search_failed"

\* The places of a page's blocks that hold a run of table lines of at least
\* min_chunk_size characters.
TablePlaces(out) ==
    {i \in 1..Len(out.blocks) :
        /\ out.blocks[i] = TableRows
        /\ Len(TableRows) >= out.chunker.min_chunk_size}

\* The text of the block at place i is in an emitted chunk of type table.
EmittedAsTable(out, i) ==
    \E k \in 1..Len(out.chunks) :
        /\ out.chunks[k].chunk_type = "table"
        /\ Contains(out.chunks[k].text, out.blocks[i])

\* C32: every run of consecutive table lines of at least min_chunk_size
\* characters is emitted as a chunk of type table, whatever follows it: a
\* regular line, a blank line, a header, a code fence or the end of input.
C32_TablesEmittedAsTable ==
    last.op = "chunk" =>
        \A i \in TablePlaces(last.out) : EmittedAsTable(last.out, i)

\* The body of a chunk: its text without the injected "## header" line and
\* the blank line after it.
Body(chunk) ==
    IF chunk.header = None THEN chunk.text
    ELSE From(chunk.text, Len(chunk.header) + 6)

\* C33: every emitted chunk of type paragraph has a body of at most
\* chunk_size characters, for every input; only code and table chunks may be
\* longer.
C33_ParagraphBounded ==
    last.op = "chunk" =>
        \A k \in 1..Len(last.out.chunks) :
            last.out.chunks[k].chunk_type = "paragraph" =>
                Len(Body(last.out.chunks[k])) <= last.out.chunker.chunk_size

\* A search suspended at the await of its query embedding resumes in this
\* step and runs its dense and BM25 queries.
RunsQueries(t) ==
    /\ t.kind = "search"
    /\ t.pc = "embed"
    /\ CopiesIn(t, tasks') < CopiesIn(t, tasks)
    /\ last'.op # "search_cancelled"

\* C34: under any interleaving with ingests and deletes on the same subject,
\* the collection size a search counted (for its empty-subject check, its
\* candidate pool min(4 * limit, N, 20) and its total_searched) is the size of
\* the subject's dense collection when the search runs its dense and BM25
\* queries.
C34_Step ==
    \A t \in BagToSet(tasks) :
        (RunsQueries(t) /\ OnlySubject(t.subject_id)) =>
            t.total = Len(DenseOf(t.subject_id))

C34_CountIsCurrent == [][C34_Step]_vars

\* An add_chunks call starts in this step and runs up to its await.
IngestStarts(subject_id) ==
    \E t \in BagToSet(tasks') :
        /\ t.kind = "ingest"
        /\ t.subject_id = subject_id
        /\ CopiesIn(t, tasks') > CopiesIn(t, tasks)

\* C35: an add_chunks call that is cancelled at a suspension point leaves
\* both indices of the subject with the ids they held before the call: neither
\* its steps up to the await nor the cancellation add or remove an id, so no
\* chunk of the cancelled batch gets into only one of the two indices.
C35_Step ==
    \A s \in SubjectIds :
        (IngestStarts(s) \/ (last'.op = "ingest_cancelled" /\ last'.subject_id = s)) =>
            /\ DenseIds(s)' = DenseIds(s)
            /\ Bm25IdsOf(s)' = Bm25IdsOf(s)

C35_CancelledIngestLeavesNothing == [][C35_Step]_vars

\* An ingest into a subject that holds another document was cancelled: the
\* subject has that document in both indices and no chunk of the cancelled
\* batch in either.
C35_Witness ==
    /\ last.op = "ingest_cancelled"
    /\ DenseIds(last.subject_id) # {}
    /\ DenseIds(last.subject_id) = Bm25IdsOf(last.subject_id)
    /\ ChunkIdsOf(last.document_id) \cap DenseIds(last.subject_id) = {}

\* Chunk i of a document is before chunk j in page-then-position order.
PageThenPosition(chunks, i, j) ==
    \/ chunks[i].page < chunks[j].page
    \/ chunks[i].page = chunks[j].page /\ chunks[i].char_start < chunks[j].char_start

\* C36: within one process_document call the i-th chunk (from 0) in page
\* order, then position order within the page, gets the id
\* "{document_id}_{i}"; the dense store and the BM25 index both receive the
\* chunks in that order, each id with the same text and metadata in both, and
\* when the ids are new both indices hold them so.
C36_IdsInPageOrder ==
    last.op = "process" =>
        LET out == last.out
            n == Len(out.chunks)
            col == CollectionName(last.subject_id)
            b == Bm25Of(last.subject_id)
        IN /\ \A p \in 1..Len(out.pages) :
                 Cardinality({i \in 1..n : out.chunks[i].page = out.pages[p].page})
                     = Len(ChunkText(DefaultChunker, out.pages[p].text))
           /\ \A i \in 1..n, j \in 1..n : i < j => PageThenPosition(out.chunks, i, j)
           /\ Len(out.collection_add.ids) = n /\ Len(out.add_document) = n
           /\ \A i \in 1..n :
                 /\ out.collection_add.ids[i] = ChunkId(last.document_id, i - 1)
                 /\ out.add_document[i].id = ChunkId(last.document_id, i - 1)
                 /\ out.collection_add.documents[i] = WordsOf(out.chunks[i].text)
                 /\ out.add_document[i].text = out.collection_add.documents[i]
                 /\ out.add_document[i].metadata = out.collection_add.metadatas[i]
                 /\ out.add_document[i].metadata.page = out.chunks[i].page
                 /\ out.add_document[i].metadata.header = out.chunks[i].header
           /\ (out.fresh /\ n > 0) =>
                 /\ SubSeq(dense[col], Len(dense[col]) - n + 1, Len(dense[col]))
                       = out.add_document
                 /\ \A i \in 1..n :
                       /\ b.doc_texts[out.add_document[i].id] = out.add_document[i].text
                       /\ b.doc_metadata[out.add_document[i].id]
                             = out.add_document[i].metadata

\* A file of two pages with chunks was ingested into a subject that held
\* another document: its chunks of page 1 have the ids before those of page 2.
C36_Witness ==
    /\ last.op = "process"
    /\ last.out.fresh
    /\ Len(last.out.chunks) >= 3
    /\ last.out.chunks[1].page = 1
    /\ last.out.chunks[Len(last.out.chunks)].page = 2
    /\ Len(DenseOf(last.subject_id)) > Len(last.out.chunks)

\* The deepest and the outermost non-null entry of a header stack H.
Deepest(H) ==
    LET set == {i \in 1..3 : H[i] # None}
    IN IF set = {} THEN None ELSE H[CHOOSE i \in set : \A j \in set : j <= i]

Outermost(H) ==
    LET set == {i \in 1..3 : H[i] # None}
    IN IF set = {} THEN None ELSE H[CHOOSE i \in set : \A j \in set : j >= i]

\* The header stack H when the line at character offset limit is read (or the
\* input has ended): from an empty stack, every header line before it, of
\* level L and title T, has set H[min(L - 1, 2)] to T and cleared the deeper
\* entries.  pos is the offset of the first of lines.
RECURSIVE StackAt(_, _, _, _, _)
StackAt(lines, pos, limit, H, in_code) ==
    IF lines = <<>> \/ pos >= limit THEN H
    ELSE LET line == Head(lines)
             fence == IsCodeFence(line)
             hdr == IF fence \/ in_code \/ IsTableLine(line) THEN NoHeader
                    ELSE DetectHeader(line)
             idx == Min(hdr.level - 1, 2) + 1
             H1 == IF ~hdr.found THEN H
                   ELSE [i \in 1..3 |-> IF i < idx THEN H[i]
                                        ELSE IF i = idx THEN hdr.text ELSE None]
         IN StackAt(Tail(lines), pos + Len(line) + 1, limit, H1, in_code # fence)

\* C37: every header of level L sets H[min(L - 1, 2)] to its title and clears
\* the deeper entries of the 3-deep stack, so that every emitted chunk's header
\* is the deepest non-null entry of H at its emission, its parent_header the
\* outermost non-null entry when that differs from the header and null
\* otherwise, and no chunk has a parent_header equal to its header.
C37_HeaderStack ==
    last.op = "chunk" =>
        \A k \in 1..Len(last.out.chunks) :
            LET chunk == last.out.chunks[k]
                H == StackAt(SplitLines(last.out.text), 0, chunk.char_end,
                             <<None, None, None>>, FALSE)
            IN /\ chunk.header = Deepest(H)
               /\ chunk.parent_header =
                     (IF Outermost(H) # Deepest(H) THEN Outermost(H) ELSE None)
               /\ chunk.header # None => chunk.parent_header # chunk.header

\* A paragraph under a level-3 header inside a level-2 section came out with
\* the inner title as header and the outer one as parent_header.
C37_Witness ==
    /\ last.op = "chunk"
    /\ last.out.blocks = <<HeaderOverview, HeaderNotes, ProseMin>>
    /\ Len(last.out.chunks) = 1
    /\ last.out.chunks[1].header = CleanHeader(HeaderNotes)
    /\ last.out.chunks[1].parent_header = CleanHeader(HeaderOverview)

\* The product of the factors of the conditions that hold for a scored text,
\* in 1e-7: 1.3 header in scope, 1.4 definition line, 1.2 code, 1.1 marker
\* word, 0.7 under 100 characters.
FactorProduct(out) ==
    100 * (IF out.has_header THEN 13 ELSE 10)
        * (IF out.first = DefinitionLine THEN 14 ELSE 10)
        * (IF out.chunk_type = "code" THEN 12 ELSE 10)
        * (IF out.marker # <<>> THEN 11 ELSE 10)
        * (IF out.tail = <<>> THEN 7 ELSE 10)

\* C38: the importance score is in [0.5, 2.0] for every combination of the
\* five scoring conditions: it is the product of their factors, capped at 2.0
\* and rounded to two places.
C38_ImportanceRange ==
    last.op = "importance" =>
        LET score == last.out.importance_score
            product == FactorProduct(last.out)
        IN /\ score >= 50
           /\ score <= 200
           /\ product >= 200 * 100000 => score = 200
           /\ product < 200 * 100000 =>
                 /\ 100000 * score - product <= 50000
                 /\ product - 100000 * score <= 50000

\* A long code chunk with a header in scope, a definition line and a marker
\* word: the product 2.4024 came out as 2.0.
C38_Witness ==
    /\ last.op = "importance"
    /\ last.out.has_header
    /\ last.out.first = DefinitionLine
    /\ last.out.chunk_type = "code"
    /\ last.out.marker # <<>>
    /\ last.out.tail = LongTail
    /\ FactorProduct(last.out) > 200 * 100000
    /\ last.out.importance_score = 200

====
